---- MODULE Spec2Model ----
(***************************************************************************)
(* State-machine model of the generic texture cache engine                 *)
(* (video_core/texture_cache/texture_cache.h): the page-bucketed registry, *)
(* the L1 cache, the surface reserve, the render-target slots and the      *)
(* GetSurface matching / recycling algorithm.                              *)
(*                                                                         *)
(* Every C++ method is an operator that maps an engine state record `c`    *)
(* to the engine state after the call (and the value it returns), so that  *)
(* a public entry point is one action that contains every nested call.     *)
(***************************************************************************)
EXTENDS Integers, Sequences, FiniteSets, TLC

\* ------------------------------------------------------------------------
\* Bounds of the model
\* ------------------------------------------------------------------------
MaxSurfaces == 3
MaxAddr == 2
MaxTicks == 4
MaxReserve == 2
MaxSampled == 1
MaxRenderTargets == 2
MaxThreads == 2

\* ------------------------------------------------------------------------
\* Program constants and the address spaces
\* ------------------------------------------------------------------------
registry_page_bits == 20
registry_page_size == 2 ^ registry_page_bits

\* Granularity of the addresses and sizes the model draws: half a registry
\* page, so that surfaces of one, one and a half and two pages exist.
HalfPage == registry_page_size \div 2

\* GPU memory manager: one continuous mapped block of MaxAddr half pages.
GpuBase == 4 * registry_page_size
HostBase == 16 * registry_page_size
CpuBase == 8 * registry_page_size
GpuUnmapped == registry_page_size

MappedGpuAddrs == {GpuBase + k * HalfPage : k \in 0..(MaxAddr - 1)}

IsMapped(gpu_addr) == gpu_addr >= GpuBase /\ gpu_addr < GpuBase + MaxAddr * HalfPage

\* MemoryManager::GetPointer followed by ToCacheAddr; 0 is the null pointer.
GetPointer(gpu_addr) == IF IsMapped(gpu_addr) THEN gpu_addr - GpuBase + HostBase ELSE 0

ToCacheAddr(host_ptr) == host_ptr

\* MemoryManager::GpuToCpuAddress; -1 is the empty optional.
GpuToCpuAddress(gpu_addr) == IF IsMapped(gpu_addr) THEN gpu_addr - GpuBase + CpuBase ELSE -1

IsBlockContinuous(gpu_addr, size) == IsMapped(gpu_addr) /\ gpu_addr + size <= GpuBase + MaxAddr * HalfPage

Max(a, b) == IF a > b THEN a ELSE b

\* ------------------------------------------------------------------------
\* Pixel formats and the sibling table
\* ------------------------------------------------------------------------
PixelFormats == {"ABGR8U", "R32F", "Z32F", "R16U", "Z16", "RG32F", "Z32FS8", "DXT1", "Invalid"}

GetBytesPerPixel(format) ==
    CASE format \in {"ABGR8U", "R32F", "Z32F"} -> 4
      [] format \in {"R16U", "Z16"} -> 2
      [] OTHER -> 8

IsPixelFormatCompressed(format) == format = "DXT1"

GetFormatType(format) == IF format \in {"Z32F", "Z16"} THEN "Depth"
                         ELSE IF format = "Z32FS8" THEN "DepthStencil" ELSE "ColorTexture"

GetComponentType(format) == IF format \in {"ABGR8U", "Z16", "DXT1"} THEN "UNorm"
                            ELSE IF format = "R16U" THEN "UInt" ELSE "Float"

make_siblings(table, a, b) == [table EXCEPT ![a] = b, ![b] = a]

\* The pairs the constructor declares.
DeclaredSiblings == {<<"Z16", "R16U">>, <<"Z32F", "R32F">>, <<"Z32FS8", "RG32F">>}

\* The table filled with the identity instead of Invalid.
siblings_table_Identity ==
    LET filled == [f \in PixelFormats |-> f]
        t1 == make_siblings(filled, "Z16", "R16U")
        t2 == make_siblings(t1, "Z32F", "R32F")
    IN  make_siblings(t2, "Z32FS8", "RG32F")

\* The table the constructor builds: filled with Invalid, then three pairs.
siblings_table ==
    LET filled == [f \in PixelFormats |-> "Invalid"]
        t1 == make_siblings(filled, "Z16", "R16U")
        t2 == make_siblings(t1, "Z32F", "R32F")
    IN  make_siblings(t2, "Z32FS8", "RG32F")

GetSiblingFormat(format) == siblings_table[format]

\* ------------------------------------------------------------------------
\* SurfaceParams
\* ------------------------------------------------------------------------
\* Width, in texels, of a 4-byte-per-texel row of half a registry page.
RowWidth == HalfPage \div 4

MakeParams(tiled, bdepth, target, format, width, levels) ==
    [is_tiled |-> tiled, block_height |-> IF tiled THEN 1 ELSE 0, block_depth |-> bdepth,
     width |-> width, height |-> 1, depth |-> 1, num_levels |-> levels,
     is_layered |-> FALSE, target |-> target, pixel_format |-> format,
     component_type |-> GetComponentType(format), type |-> GetFormatType(format)]

GetNumLayers(params) == IF params.is_layered THEN params.depth ELSE 1

GetMipWidth(params, level) == Max(1, params.width \div (2 ^ level))

\* Guest size of one mipmap level of one layer.
GetMipmapSize(params, level) ==
    GetMipWidth(params, level) * params.height * (IF params.is_layered THEN 1 ELSE params.depth)
        * GetBytesPerPixel(params.pixel_format)

RECURSIVE GetMipmapLevelOffset(_, _)
GetMipmapLevelOffset(params, level) ==
    IF level = 0 THEN 0
    ELSE GetMipmapLevelOffset(params, level - 1) + GetMipmapSize(params, level - 1)

GetLayerSize(params) == GetMipmapLevelOffset(params, params.num_levels)

GetGuestSizeInBytes(params) == GetLayerSize(params) * GetNumLayers(params)

\* Width conversion between formats of different compression block widths.
GetDefaultBlockWidth(format) == IF IsPixelFormatCompressed(format) THEN 4 ELSE 1

ConvertWidth(width, pixel_format_from, pixel_format_to) ==
    LET bw1 == GetDefaultBlockWidth(pixel_format_from)
        bw2 == GetDefaultBlockWidth(pixel_format_to)
    IN  (width * bw2 + bw1 - 1) \div bw1

ConvertHeight(height, pixel_format_from, pixel_format_to) ==
    ConvertWidth(height, pixel_format_from, pixel_format_to)

\* ------------------------------------------------------------------------
\* Surface objects (SurfaceBase)
\* ------------------------------------------------------------------------
NullParams == MakeParams(FALSE, 0, "Texture2D", "Invalid", 0, 1)

NullSurface ==
    [alive |-> FALSE, params |-> NullParams, gpu_addr |-> 0, cpu_addr |-> 0,
     cache_addr |-> 0, cache_addr_end |-> 0, is_continuous |-> FALSE,
     is_registered |-> FALSE, is_picked |-> FALSE, is_modified |-> FALSE,
     modification_tick |-> 0, is_target |-> FALSE]

SurfaceIds == 1..MaxSurfaces

NullView == [surface |-> 0, layer |-> 0, level |-> 0, num_levels |-> 0, target |-> "None"]

GetSizeInBytes(sf) == GetGuestSizeInBytes(sf.params)

GetMainView(c, s) ==
    [surface |-> s, layer |-> 0, level |-> 0, num_levels |-> c.surf[s].params.num_levels,
     target |-> c.surf[s].params.target]

EmplaceOverview(c, s, overview_params) ==
    [surface |-> s, layer |-> 0, level |-> 0, num_levels |-> c.surf[s].params.num_levels,
     target |-> overview_params.target]

Overlaps(sf, start, end) == sf.cache_addr < end /\ sf.cache_addr_end > start

IsInside(sf, other_start, other_end) ==
    sf.gpu_addr <= other_start /\ other_end <= sf.gpu_addr + GetSizeInBytes(sf)

MatchFormat(sf, pixel_format) == sf.params.pixel_format = pixel_format

MatchTarget(sf, target) == sf.params.target = target

\* Only 3D slices are protected: a bound render target with a block depth.
IsProtected(sf) == sf.is_target /\ sf.params.block_depth > 0

\* Tiling mode, block dimensions and byte-layout class agree.
MatchesTopology(sf, rhs) ==
    LET p == sf.params
    IN  IF /\ GetBytesPerPixel(p.pixel_format) = GetBytesPerPixel(rhs.pixel_format)
           /\ p.is_tiled = rhs.is_tiled
           /\ p.block_height = rhs.block_height
           /\ p.block_depth = rhs.block_depth
        THEN IF IsPixelFormatCompressed(p.pixel_format) = IsPixelFormatCompressed(rhs.pixel_format)
             THEN "FullMatch" ELSE "CompressUnmatch"
        ELSE "None"

\* Same general shape (depth, mip levels, layers): FullMatch when the
\* dimensions agree as well, SemiMatch when only they differ.
MatchesStructure(sf, rhs) ==
    LET p == sf.params
    IN  IF /\ p.depth = rhs.depth
           /\ p.num_levels = rhs.num_levels
           /\ p.is_layered = rhs.is_layered
        THEN IF p.width = rhs.width /\ p.height = rhs.height
             THEN "FullMatch"
             ELSE IF p.is_tiled THEN "SemiMatch" ELSE "None"
        ELSE "None"

MatchesSubTexture(sf, rhs, other_gpu_addr) ==
    /\ sf.gpu_addr = other_gpu_addr
    /\ sf.params.target = rhs.target
    /\ sf.params.num_levels = rhs.num_levels
    /\ sf.params.target = "Texture2D"
    /\ sf.params.num_levels = 1

\* The (layer, mipmap) slot of the surface that starts at candidate_gpu_addr;
\* <<>> when no slot starts there.
GetLayerMipmap(sf, candidate_gpu_addr) ==
    LET p == sf.params
        off == candidate_gpu_addr - sf.gpu_addr
        lsize == GetLayerSize(p)
        layer == IF lsize > 0 /\ off >= 0 THEN off \div lsize ELSE 0
        rel == off - layer * lsize
        hits == {m \in 0..(p.num_levels - 1) : GetMipmapLevelOffset(p, m) = rel}
    IN  IF off < 0 \/ lsize = 0 \/ layer >= GetNumLayers(p) \/ hits = {}
        THEN <<>>
        ELSE <<layer, CHOOSE m \in hits : \A n \in hits : m <= n>>

\* A mip/layer sub-view of the surface for the candidate, when one exists.
EmplaceView(c, s, view_params, view_addr, candidate_size) ==
    LET sf == c.surf[s]
        lm == GetLayerMipmap(sf, view_addr)
    IN  IF \/ sf.params.target = "Texture3D"
           \/ (sf.params.num_levels = 1 /\ ~sf.params.is_layered)
           \/ view_params.target = "Texture3D"
           \/ lm = <<>>
        THEN NullView
        ELSE IF GetMipmapSize(sf.params, lm[2]) # candidate_size
             THEN NullView
             ELSE [surface |-> s, layer |-> lm[1], level |-> lm[2], num_levels |-> 1,
                   target |-> view_params.target]

\* One copy region per mip level the two surfaces share.
BreakDown(sf, in_params) ==
    [m \in 1..(IF sf.params.num_levels < in_params.num_levels
               THEN sf.params.num_levels ELSE in_params.num_levels) |-> m - 1]

MarkAsModified(c, s, is_modified_, tick) ==
    [c EXCEPT !.surf[s].is_modified = is_modified_, !.surf[s].modification_tick = tick]

MarkAsRenderTarget(c, s, is_target_) == [c EXCEPT !.surf[s].is_target = is_target_]

\* ------------------------------------------------------------------------
\* Finite maps with erasure (std::unordered_map)
\* ------------------------------------------------------------------------
MapGet(m, k, default) == IF k \in DOMAIN m THEN m[k] ELSE default

MapPut(m, k, v) == [x \in DOMAIN m \cup {k} |-> IF x = k THEN v ELSE m[x]]

MapErase(m, k) == [x \in DOMAIN m \ {k} |-> m[x]]

EmptyMap == [x \in {} |-> 0]

Emit(c, event) == [c EXCEPT !.log = Append(@, event)]

\* ------------------------------------------------------------------------
\* Engine primitives
\* ------------------------------------------------------------------------
\* Variant of Tick that hands out the current value again.
Tick_Stale(c) == c

Tick(c) == [c EXCEPT !.ticks = @ + 1, !.ok = @ /\ c.ticks < MaxTicks]

\* RasterizerInterface::UpdatePagesCachedCount, tracked per half registry page.
RECURSIVE AddPages(_, _, _, _)
AddPages(pages, first, last, delta) ==
    IF first > last THEN pages
    ELSE LET n == MapGet(pages, first, 0) + delta
         IN  AddPages(IF n = 0 THEN MapErase(pages, first) ELSE MapPut(pages, first, n),
                      first + 1, last, delta)

UpdatePagesCachedCount(c, addr, size, delta) ==
    [c EXCEPT !.cached_pages =
        AddPages(@, addr \div HalfPage, (addr + size + HalfPage - 1) \div HalfPage - 1, delta)]

Bucket(c, page) == MapGet(c.registry, page, <<>>)

SetBucket(c, page, list) ==
    [c EXCEPT !.registry = IF list = <<>> THEN MapErase(@, page) ELSE MapPut(@, page, list)]

RECURSIVE RegisterPages(_, _, _, _)
RegisterPages(c, s, start, end) ==
    IF start > end THEN c
    ELSE RegisterPages(SetBucket(c, start, Append(Bucket(c, start), s)), s, start + 1, end)

RegisterInnerCache(c, s) ==
    LET cache_addr == c.surf[s].cache_addr
        start == cache_addr \div registry_page_size
        end == (c.surf[s].cache_addr_end - 1) \div registry_page_size
        c1 == [c EXCEPT !.l1_cache = MapPut(@, cache_addr, s)]
    IN  RegisterPages(c1, s, start, end)

\* reg.erase(std::find(reg.begin(), reg.end(), surface)): the first
\* occurrence is removed.  Erasing the end iterator (surface absent) is
\* undefined: the bucket is left alone or loses its last element.
EraseFirst(list, s) ==
    LET idx == CHOOSE i \in 1..Len(list) : list[i] = s /\ \A j \in 1..(i - 1) : list[j] # s
    IN  [i \in 1..(Len(list) - 1) |-> IF i < idx THEN list[i] ELSE list[i + 1]]

EraseFromBucket(c, page, s) ==
    LET list == Bucket(c, page)
    IN  IF \E i \in 1..Len(list) : list[i] = s
        THEN SetBucket(c, page, EraseFirst(list, s))
        ELSE LET c1 == [c EXCEPT !.ub_seen = TRUE]
             IN  IF c.ub = "pop_back" /\ list # <<>>
                 THEN SetBucket(c1, page, SubSeq(list, 1, Len(list) - 1))
                 ELSE c1

RECURSIVE UnregisterPages(_, _, _, _)
UnregisterPages(c, s, start, end) ==
    IF start > end THEN c
    ELSE UnregisterPages(EraseFromBucket(c, start, s), s, start + 1, end)

\* Variant of UnregisterInnerCache that leaves the L1 entry in place.
UnregisterInnerCache_KeepL1(c, s) ==
    LET cache_addr == c.surf[s].cache_addr
        start == cache_addr \div registry_page_size
        end == (c.surf[s].cache_addr_end - 1) \div registry_page_size
    IN  UnregisterPages(c, s, start, end)

UnregisterInnerCache(c, s) ==
    LET cache_addr == c.surf[s].cache_addr
        start == cache_addr \div registry_page_size
        end == (c.surf[s].cache_addr_end - 1) \div registry_page_size
        c1 == [c EXCEPT !.l1_cache = MapErase(@, cache_addr)]
    IN  UnregisterPages(c1, s, start, end)

\* Variant of Register that leaves out MarkAsRegistered(true).
Register_Unmarked(c, s) ==
    LET gpu_addr == c.surf[s].gpu_addr
        cache_ptr == ToCacheAddr(GetPointer(gpu_addr))
        size == GetSizeInBytes(c.surf[s])
        cpu_addr == GpuToCpuAddress(gpu_addr)
    IN  IF cache_ptr = 0 \/ cpu_addr = -1
        THEN Emit(c, <<"RegisterFailed", s>>)
        ELSE LET c1 == [c EXCEPT !.surf[s].is_continuous = IsBlockContinuous(gpu_addr, size),
                                 !.surf[s].cache_addr = cache_ptr,
                                 !.surf[s].cache_addr_end = cache_ptr + size,
                                 !.surf[s].cpu_addr = cpu_addr]
                 c2 == RegisterInnerCache(c1, s)
             IN  Emit(UpdatePagesCachedCount(c2, cpu_addr, size, 1), <<"Register", s>>)

Register(c, s) ==
    LET gpu_addr == c.surf[s].gpu_addr
        cache_ptr == ToCacheAddr(GetPointer(gpu_addr))
        size == GetSizeInBytes(c.surf[s])
        cpu_addr == GpuToCpuAddress(gpu_addr)
    IN  IF cache_ptr = 0 \/ cpu_addr = -1
        THEN Emit(c, <<"RegisterFailed", s>>)
        ELSE LET c1 == [c EXCEPT !.surf[s].is_continuous = IsBlockContinuous(gpu_addr, size),
                                 !.surf[s].cache_addr = cache_ptr,
                                 !.surf[s].cache_addr_end = cache_ptr + size,
                                 !.surf[s].cpu_addr = cpu_addr]
                 c2 == RegisterInnerCache(c1, s)
                 c3 == [c2 EXCEPT !.surf[s].is_registered = TRUE]
             IN  Emit(UpdatePagesCachedCount(c3, cpu_addr, size, 1), <<"Register", s>>)

ReserveSurface(c, params, s) ==
    LET list == Append(MapGet(c.surface_reserve, params, <<>>), s)
    IN  [c EXCEPT !.surface_reserve = MapPut(@, params, list),
                  !.ok = @ /\ Len(list) <= MaxReserve]

\* Variant of Unregister without the render-target guard.
Unregister_Unguarded(c, s) ==
    LET size == GetSizeInBytes(c.surf[s])
        cpu_addr == c.surf[s].cpu_addr
        c1 == UpdatePagesCachedCount(c, cpu_addr, size, -1)
        c2 == UnregisterInnerCache(c1, s)
        c3 == [c2 EXCEPT !.surf[s].is_registered = FALSE]
    IN  ReserveSurface(Emit(c3, <<"Unregister", s>>), c.surf[s].params, s)

Unregister(c, s) ==
    IF c.guard_render_targets /\ IsProtected(c.surf[s])
    THEN c
    ELSE LET size == GetSizeInBytes(c.surf[s])
             cpu_addr == c.surf[s].cpu_addr
             c1 == UpdatePagesCachedCount(c, cpu_addr, size, -1)
             c2 == UnregisterInnerCache(c1, s)
             c3 == [c2 EXCEPT !.surf[s].is_registered = FALSE]
         IN  ReserveSurface(Emit(c3, <<"Unregister", s>>), c.surf[s].params, s)

RECURSIVE UnregisterAll(_, _, _)
UnregisterAll(c, list, i) ==
    IF i > Len(list) THEN c ELSE UnregisterAll(Unregister(c, list[i]), list, i + 1)

\* Variant of TryGetReservedSurface that finds nothing.
TryGetReservedSurface_None(c, params) == 0

TryGetReservedSurface(c, params) ==
    LET list == MapGet(c.surface_reserve, params, <<>>)
        free == {i \in 1..Len(list) : ~c.surf[list[i]].is_registered}
    IN  IF free = {} THEN 0 ELSE list[CHOOSE i \in free : \A j \in free : i <= j]

\* Backend CreateSurface: a new object, here the lowest free identity.
CreateSurface(c, gpu_addr, params) ==
    LET free == {s \in SurfaceIds : ~c.surf[s].alive}
        s == IF free = {} THEN 0 ELSE CHOOSE x \in free : \A y \in free : x <= y
        c1 == [c EXCEPT !.surf[s] = [NullSurface EXCEPT !.alive = (s # 0), !.params = params,
                                                       !.gpu_addr = gpu_addr],
                        !.ok = @ /\ s # 0]
    IN  [c |-> Emit(c1, <<"Create", s, params>>), s |-> s]

\* Variant of GetUncachedSurface that never looks into the reserve.
GetUncachedSurface_NoReserve(c, gpu_addr, params) == CreateSurface(c, gpu_addr, params)

GetUncachedSurface(c, gpu_addr, params) ==
    LET surface == TryGetReservedSurface(c, params)
    IN  IF surface # 0
        THEN [c |-> Emit([c EXCEPT !.surf[surface].gpu_addr = gpu_addr],
                         <<"Reuse", surface, params>>),
              s |-> surface]
        ELSE CreateSurface(c, gpu_addr, params)

LoadSurface(c, s) ==
    LET c1 == Tick(Emit(c, <<"Load", s>>))
    IN  MarkAsModified(c1, s, FALSE, c1.ticks)

\* Variant of FlushSurface that writes back whether or not the surface is
\* modified.
FlushSurface_Always(c, s) ==
    LET c1 == Tick(Emit(c, <<"Flush", s>>))
    IN  MarkAsModified(c1, s, FALSE, c1.ticks)

\* Variant of FlushSurface that leaves the surface marked as modified.
FlushSurface_StillModified(c, s) ==
    IF ~c.surf[s].is_modified
    THEN c
    ELSE Tick(Emit(c, <<"Flush", s>>))

FlushSurface(c, s) ==
    IF ~c.surf[s].is_modified
    THEN c
    ELSE LET c1 == Tick(Emit(c, <<"Flush", s>>))
         IN  MarkAsModified(c1, s, FALSE, c1.ticks)

RECURSIVE FlushAll(_, _, _)
FlushAll(c, list, i) ==
    IF i > Len(list) THEN c ELSE FlushAll(FlushSurface(c, list[i]), list, i + 1)

InitializeSurface(c, gpu_addr, params, preserve_contents) ==
    LET Viewed(c2, s) == [c |-> c2, s |-> s, view |-> GetMainView(c2, s)]
        Loaded(c1, s) == Viewed(IF preserve_contents THEN LoadSurface(c1, s) ELSE c1, s)
        Registered(r) == Loaded(Register(r.c, r.s), r.s)
    IN  Registered(GetUncachedSurface(c, gpu_addr, params))

\* Variant of the sort that keeps the scan order.
SortByTick_Unsorted(c, list) == list

\* std::sort by modification tick (insertion into an ascending list).
RECURSIVE SortByTick(_, _)
SortByTick(c, list) ==
    IF list = <<>> THEN <<>>
    ELSE LET rest == SortByTick(c, Tail(list))
             x == Head(list)
             k == Cardinality({i \in 1..Len(rest) :
                        c.surf[rest[i]].modification_tick < c.surf[x].modification_tick})
         IN  SubSeq(rest, 1, k) \o <<x>> \o SubSeq(rest, k + 1, Len(rest))

\* The scan of a bucket without the test of the picked mark.
RECURSIVE ScanBucket_NoPick(_, _, _, _, _)
ScanBucket_NoPick(r, list, i, cache_addr, cache_addr_end) ==
    IF i > Len(list) THEN r
    ELSE LET s == list[i]
             sf == r.c.surf[s]
         IN  IF Overlaps(sf, cache_addr, cache_addr_end)
             THEN ScanBucket_NoPick([c |-> [r.c EXCEPT !.surf[s].is_picked = TRUE],
                                     surfaces |-> Append(r.surfaces, s)],
                                    list, i + 1, cache_addr, cache_addr_end)
             ELSE ScanBucket_NoPick(r, list, i + 1, cache_addr, cache_addr_end)

\* The mark / collect / unmark scan over the page buckets of a region.
RECURSIVE ScanBucket(_, _, _, _, _)
ScanBucket(r, list, i, cache_addr, cache_addr_end) ==
    IF i > Len(list) THEN r
    ELSE LET s == list[i]
             sf == r.c.surf[s]
         IN  IF ~sf.is_picked /\ Overlaps(sf, cache_addr, cache_addr_end)
             THEN ScanBucket([c |-> [r.c EXCEPT !.surf[s].is_picked = TRUE],
                              surfaces |-> Append(r.surfaces, s)],
                             list, i + 1, cache_addr, cache_addr_end)
             ELSE ScanBucket(r, list, i + 1, cache_addr, cache_addr_end)

RECURSIVE ScanPages(_, _, _, _, _)
ScanPages(r, start, end, cache_addr, cache_addr_end) ==
    IF start > end THEN r
    ELSE ScanPages(ScanBucket(r, Bucket(r.c, start), 1, cache_addr, cache_addr_end),
                   start + 1, end, cache_addr, cache_addr_end)

RECURSIVE UnpickAll(_, _, _)
UnpickAll(c, list, i) ==
    IF i > Len(list) THEN c
    ELSE UnpickAll([c EXCEPT !.surf[list[i]].is_picked = FALSE], list, i + 1)

\* Variant of the scan that stops at the first overlapping surface.
GetSurfacesInRegion_First(c, cache_addr, size) ==
    IF size = 0 THEN [c |-> c, surfaces |-> <<>>]
    ELSE LET cache_addr_end == cache_addr + size
             start == cache_addr \div registry_page_size
             end == (cache_addr_end - 1) \div registry_page_size
             r == ScanPages([c |-> c, surfaces |-> <<>>], start, end, cache_addr, cache_addr_end)
         IN  [c |-> UnpickAll(r.c, r.surfaces, 1),
              surfaces |-> SubSeq(r.surfaces, 1, IF r.surfaces = <<>> THEN 0 ELSE 1)]

GetSurfacesInRegion(c, cache_addr, size) ==
    IF size = 0 THEN [c |-> c, surfaces |-> <<>>]
    ELSE LET cache_addr_end == cache_addr + size
             start == cache_addr \div registry_page_size
             end == (cache_addr_end - 1) \div registry_page_size
             r == ScanPages([c |-> c, surfaces |-> <<>>], start, end, cache_addr, cache_addr_end)
         IN  [c |-> UnpickAll(r.c, r.surfaces, 1), surfaces |-> r.surfaces]

\* ------------------------------------------------------------------------
\* Recycling, rebuilding, reconstruction
\* ------------------------------------------------------------------------
Is3D(params) == params.block_depth > 1 \/ params.target = "Texture3D"

\* PickStrategy without the decision on untiled candidates.
PickStrategy_NoLinear(c, overlaps, params, gpu_addr, untopological) ==
    IF c.use_accurate_gpu_emulation THEN "Flush"
    ELSE IF Is3D(params) THEN "Flush"
    ELSE IF \E i \in 1..Len(overlaps) : Is3D(c.surf[overlaps[i]].params) THEN "Flush"
    ELSE IF untopological = "CompressUnmatch" THEN "Flush"
    ELSE "Ignore"

PickStrategy(c, overlaps, params, gpu_addr, untopological) ==
    IF c.use_accurate_gpu_emulation THEN "Flush"
    ELSE IF Is3D(params) THEN "Flush"
    ELSE IF \E i \in 1..Len(overlaps) : Is3D(c.surf[overlaps[i]].params) THEN "Flush"
    ELSE IF untopological = "CompressUnmatch" THEN "Flush"
    ELSE IF untopological = "FullMatch" /\ ~params.is_tiled THEN "Flush"
    ELSE "Ignore"

\* RecycleSurface that initialises the new surface before the overlaps are
\* written back.
RecycleSurface_LoadFirst(c, overlaps, params, gpu_addr, preserve_contents, untopological) ==
    LET do_load == preserve_contents /\ c.use_accurate_gpu_emulation
        Flushed(r, strategy) ==
            IF strategy = "Flush"
            THEN [r EXCEPT !.c = FlushAll(r.c, SortByTick(r.c, overlaps), 1)]
            ELSE r
        Picked(c1, strategy) ==
            Flushed(InitializeSurface(c1, gpu_addr, params,
                                      IF strategy = "Flush" THEN preserve_contents ELSE do_load),
                    strategy)
        Unregistered(c1) == Picked(c1, PickStrategy(c1, overlaps, params, gpu_addr, untopological))
    IN  Unregistered(UnregisterAll(c, overlaps, 1))

\* RecycleSurface that unregisters only the first overlap.
RecycleSurface_FirstOnly(c, overlaps, params, gpu_addr, preserve_contents, untopological) ==
    LET do_load == preserve_contents /\ c.use_accurate_gpu_emulation
        Picked(c1, strategy) ==
            InitializeSurface(
                IF strategy = "Flush" THEN FlushAll(c1, SortByTick(c1, overlaps), 1) ELSE c1,
                gpu_addr, params,
                IF strategy = "Flush" THEN preserve_contents ELSE do_load)
        Unregistered(c1) == Picked(c1, PickStrategy(c1, overlaps, params, gpu_addr, untopological))
    IN  Unregistered(Unregister(c, overlaps[1]))

RecycleSurface(c, overlaps, params, gpu_addr, preserve_contents, untopological) ==
    LET do_load == preserve_contents /\ c.use_accurate_gpu_emulation
        Copied(r) == [c |-> Emit(r.c, <<"BufferCopy", overlaps[1], r.s>>), s |-> r.s,
                      view |-> GetMainView(r.c, r.s)]
        \* Ignore and the default case initialise with do_load; Flush writes the
        \* overlaps back, oldest first, and initialises with preserve_contents.
        Picked(c1, strategy) ==
            IF strategy = "BufferCopy"
            THEN Copied(GetUncachedSurface(c1, gpu_addr, params))
            ELSE InitializeSurface(
                     IF strategy = "Flush" THEN FlushAll(c1, SortByTick(c1, overlaps), 1) ELSE c1,
                     gpu_addr, params,
                     IF strategy = "Flush" THEN preserve_contents ELSE do_load)
        Unregistered(c1) == Picked(c1, PickStrategy(c1, overlaps, params, gpu_addr, untopological))
    IN  Unregistered(UnregisterAll(c, overlaps, 1))

RECURSIVE CopyBricks(_, _, _, _, _)
CopyBricks(c, src, dst, bricks, i) ==
    IF i > Len(bricks) THEN c
    ELSE CopyBricks(Emit(c, <<"ImageCopy", src, dst, 0, bricks[i]>>), src, dst, bricks, i + 1)

\* RebuildSurface that stamps the new surface as unmodified.
RebuildSurface_Unmodified(c, current_surface, params, is_render) ==
    LET gpu_addr == c.surf[current_surface].gpu_addr
        cr_params == c.surf[current_surface].params
        new_params == IF /\ cr_params.pixel_format # params.pixel_format
                         /\ ~is_render
                         /\ GetSiblingFormat(cr_params.pixel_format) = params.pixel_format
                      THEN [params EXCEPT !.pixel_format = cr_params.pixel_format,
                                          !.component_type = cr_params.component_type,
                                          !.type = cr_params.type]
                      ELSE params
        Viewed(c5, new_surface) == [c |-> c5, s |-> new_surface, view |-> GetMainView(c5, new_surface)]
        Marked(c4, new_surface) ==
            Viewed(MarkAsModified(c4, new_surface, FALSE, c4.ticks), new_surface)
        Copied(c0, new_surface, final_params) ==
            IF \/ cr_params.type # final_params.type
               \/ cr_params.component_type # final_params.component_type
            THEN Emit(c0, <<"BufferCopy", current_surface, new_surface>>)
            ELSE CopyBricks(c0, current_surface, new_surface,
                            BreakDown(c0.surf[current_surface], final_params), 1)
        Taken(r) ==
            Marked(Tick(Register(Unregister(Copied(r.c, r.s, r.c.surf[r.s].params),
                                            current_surface), r.s)), r.s)
    IN  Taken(GetUncachedSurface(c, gpu_addr, new_params))

\* RebuildSurface that always allocates with the requested params.
RebuildSurface_Requested(c, current_surface, params, is_render) ==
    LET gpu_addr == c.surf[current_surface].gpu_addr
        cr_params == c.surf[current_surface].params
        Viewed(c5, new_surface) == [c |-> c5, s |-> new_surface, view |-> GetMainView(c5, new_surface)]
        Marked(c4, new_surface) ==
            Viewed(MarkAsModified(c4, new_surface, c4.surf[current_surface].is_modified, c4.ticks),
                   new_surface)
        Copied(c0, new_surface, final_params) ==
            IF \/ cr_params.type # final_params.type
               \/ cr_params.component_type # final_params.component_type
            THEN Emit(c0, <<"BufferCopy", current_surface, new_surface>>)
            ELSE CopyBricks(c0, current_surface, new_surface,
                            BreakDown(c0.surf[current_surface], final_params), 1)
        Taken(r) ==
            Marked(Tick(Register(Unregister(Copied(r.c, r.s, r.c.surf[r.s].params),
                                            current_surface), r.s)), r.s)
    IN  Taken(GetUncachedSurface(c, gpu_addr, params))

RebuildSurface(c, current_surface, params, is_render) ==
    LET gpu_addr == c.surf[current_surface].gpu_addr
        cr_params == c.surf[current_surface].params
        new_params == IF /\ cr_params.pixel_format # params.pixel_format
                         /\ ~is_render
                         /\ GetSiblingFormat(cr_params.pixel_format) = params.pixel_format
                      THEN [params EXCEPT !.pixel_format = cr_params.pixel_format,
                                          !.component_type = cr_params.component_type,
                                          !.type = cr_params.type]
                      ELSE params
        Viewed(c5, new_surface) == [c |-> c5, s |-> new_surface, view |-> GetMainView(c5, new_surface)]
        Marked(c4, new_surface) ==
            Viewed(MarkAsModified(c4, new_surface, c4.surf[current_surface].is_modified, c4.ticks),
                   new_surface)
        Copied(c0, new_surface, final_params) ==
            IF \/ cr_params.type # final_params.type
               \/ cr_params.component_type # final_params.component_type
            THEN Emit(c0, <<"BufferCopy", current_surface, new_surface>>)
            ELSE CopyBricks(c0, current_surface, new_surface,
                            BreakDown(c0.surf[current_surface], final_params), 1)
        Taken(r) ==
            Marked(Tick(Register(Unregister(Copied(r.c, r.s, r.c.surf[r.s].params),
                                            current_surface), r.s)), r.s)
    IN  Taken(GetUncachedSurface(c, gpu_addr, new_params))

\* ManageStructuralMatch that accepts a sibling format for a render target too.
ManageStructuralMatch_AnySibling(c, current_surface, params, is_render) ==
    LET sf == c.surf[current_surface]
        is_mirage == ~MatchFormat(sf, params.pixel_format)
        matches_target == MatchTarget(sf, params.target)
    IN  IF \/ ~is_mirage
           \/ GetSiblingFormat(sf.params.pixel_format) = params.pixel_format
        THEN [c |-> c, s |-> current_surface,
              view |-> IF matches_target THEN GetMainView(c, current_surface)
                       ELSE EmplaceOverview(c, current_surface, params)]
        ELSE RebuildSurface(c, current_surface, params, is_render)

ManageStructuralMatch(c, current_surface, params, is_render) ==
    LET sf == c.surf[current_surface]
        is_mirage == ~MatchFormat(sf, params.pixel_format)
        matches_target == MatchTarget(sf, params.target)
    IN  IF \/ ~is_mirage
           \/ (~is_render /\ GetSiblingFormat(sf.params.pixel_format) = params.pixel_format)
        THEN [c |-> c, s |-> current_surface,
              view |-> IF matches_target THEN GetMainView(c, current_surface)
                       ELSE EmplaceOverview(c, current_surface, params)]
        ELSE RebuildSurface(c, current_surface, params, is_render)

\* The end of the scope of a local TSurface: an object nothing else owns is
\* destroyed; one taken from the reserve stays there.
DropSurface(c, s) ==
    IF \E p \in DOMAIN c.surface_reserve :
           \E i \in 1..Len(c.surface_reserve[p]) : c.surface_reserve[p][i] = s
    THEN c
    ELSE [c EXCEPT !.surf[s] = NullSurface]

\* The loop of TryReconstructSurface without the accumulation of the donors'
\* modified flags.
RECURSIVE ReconstructLoop_Unmodified(_, _, _, _, _)
ReconstructLoop_Unmodified(a, overlaps, i, params, new_surface) ==
    IF i > Len(overlaps) \/ a.abort THEN a
    ELSE LET surface == overlaps[i]
             sf == a.c.surf[surface]
             src_params == sf.params
             candidate_size == GetSizeInBytes(sf)
             Copied(mipmap_layer) ==
                 IF \/ mipmap_layer = <<>>
                    \/ GetMipmapSize(a.c.surf[new_surface].params, mipmap_layer[2]) # candidate_size
                 THEN a
                 ELSE [a EXCEPT !.passed_tests = @ + 1,
                                !.c = Emit(@, <<"ImageCopy", surface, new_surface,
                                                mipmap_layer[1], mipmap_layer[2]>>)]
         IN  IF src_params.is_layered \/ src_params.num_levels > 1
             THEN [a EXCEPT !.abort = TRUE]
             ELSE ReconstructLoop_Unmodified(
                      Copied(GetLayerMipmap(a.c.surf[new_surface], sf.gpu_addr)),
                      overlaps, i + 1, params, new_surface)

\* The donor loop of TryReconstructSurface; a.abort is its early return.
RECURSIVE ReconstructLoop(_, _, _, _, _)
ReconstructLoop(a, overlaps, i, params, new_surface) ==
    IF i > Len(overlaps) \/ a.abort THEN a
    ELSE LET surface == overlaps[i]
             sf == a.c.surf[surface]
             src_params == sf.params
             candidate_size == GetSizeInBytes(sf)
             Copied(mipmap_layer) ==
                 IF \/ mipmap_layer = <<>>
                    \/ GetMipmapSize(a.c.surf[new_surface].params, mipmap_layer[2]) # candidate_size
                 THEN a
                 ELSE [a EXCEPT !.modified = @ \/ sf.is_modified,
                                !.passed_tests = @ + 1,
                                !.c = Emit(@, <<"ImageCopy", surface, new_surface,
                                                mipmap_layer[1], mipmap_layer[2]>>)]
         IN  IF src_params.is_layered \/ src_params.num_levels > 1
             THEN [a EXCEPT !.abort = TRUE]
             ELSE ReconstructLoop(Copied(GetLayerMipmap(a.c.surf[new_surface], sf.gpu_addr)),
                                  overlaps, i + 1, params, new_surface)

\* TryReconstructSurface without the test of strict accuracy.
TryReconstructSurface_Lenient(c, overlaps, params, gpu_addr) ==
    IF params.target = "Texture3D"
    THEN [c |-> c, found |-> FALSE, s |-> 0, view |-> NullView]
    ELSE LET Viewed(c4, new_surface) ==
                 [c |-> c4, found |-> TRUE, s |-> new_surface, view |-> GetMainView(c4, new_surface)]
             Marked(c2, new_surface, modified) ==
                 Viewed(Register(MarkAsModified(c2, new_surface, modified, c2.ticks), new_surface),
                        new_surface)
             Looped(a, new_surface) ==
                 IF a.abort \/ a.passed_tests = 0
                 THEN [c |-> DropSurface(a.c, new_surface), found |-> FALSE, s |-> 0,
                       view |-> NullView]
                 ELSE Marked(Tick(UnregisterAll(a.c, overlaps, 1)), new_surface, a.modified)
             Taken(r) ==
                 Looped(ReconstructLoop([c |-> r.c, modified |-> FALSE, passed_tests |-> 0,
                                         abort |-> FALSE], overlaps, 1, params, r.s), r.s)
         IN  Taken(GetUncachedSurface(c, gpu_addr, params))

TryReconstructSurface(c, overlaps, params, gpu_addr) ==
    IF params.target = "Texture3D"
    THEN [c |-> c, found |-> FALSE, s |-> 0, view |-> NullView]
    ELSE LET Viewed(c4, new_surface) ==
                 [c |-> c4, found |-> TRUE, s |-> new_surface, view |-> GetMainView(c4, new_surface)]
             Marked(c2, new_surface, modified) ==
                 Viewed(Register(MarkAsModified(c2, new_surface, modified, c2.ticks), new_surface),
                        new_surface)
             Looped(a, new_surface) ==
                 IF \/ a.abort
                    \/ a.passed_tests = 0
                    \/ (c.use_accurate_gpu_emulation /\ a.passed_tests # Len(overlaps))
                 THEN [c |-> DropSurface(a.c, new_surface), found |-> FALSE, s |-> 0,
                       view |-> NullView]
                 ELSE Marked(Tick(UnregisterAll(a.c, overlaps, 1)), new_surface, a.modified)
             Taken(r) ==
                 Looped(ReconstructLoop([c |-> r.c, modified |-> FALSE, passed_tests |-> 0,
                                         abort |-> FALSE], overlaps, 1, params, r.s), r.s)
         IN  Taken(GetUncachedSurface(c, gpu_addr, params))

\* ------------------------------------------------------------------------
\* GetSurface
\* ------------------------------------------------------------------------
\* Steps 2 and 3 with the subtexture rebuild also under strict accuracy.
GetSurfaceOverlaps_Unsafe(c, gpu_addr, cache_addr, params, preserve_contents, is_render) ==
    LET candidate_size == GetGuestSizeInBytes(params)
        \* The outcome of steps 3 to 5: a surface, or the topology result the
        \* overlaps are recycled with.
        Unmatched(cx, result) ==
            [c |-> cx, found |-> FALSE, s |-> 0, view |-> NullView, untopological |-> result]
        Matched(cx, s, view) ==
            [c |-> cx, found |-> TRUE, s |-> s, view |-> view, untopological |-> "FullMatch"]
        Reconstructed(t) ==
            IF t.found THEN Matched(t.c, t.s, t.view) ELSE Unmatched(t.c, "FullMatch")
        Mirage(pair, mirage_view) ==
            IF mirage_view # NullView THEN Matched(pair.c, pair.s, mirage_view)
            ELSE Unmatched(pair.c, "FullMatch")
        Rebuilt(pair, is_mirage) ==
            IF is_mirage
            THEN Mirage(pair, EmplaceView(pair.c, pair.s, params, gpu_addr, candidate_size))
            ELSE Matched(pair.c, pair.s, pair.view)
        MirageParams(sf) ==
            [sf.params EXCEPT
                !.width = ConvertWidth(sf.params.width, sf.params.pixel_format, params.pixel_format),
                !.height = ConvertHeight(sf.params.height, sf.params.pixel_format, params.pixel_format),
                !.pixel_format = params.pixel_format]
        \* One overlap that holds the candidate: its view when the formats
        \* match, a rebuild for a mirage view or a matching subtexture.
        Inside(c0, current_surface, sf, view) ==
            IF view # NullView /\ MatchFormat(sf, params.pixel_format)
            THEN Matched(c0, current_surface, view)
            ELSE IF view = NullView /\ ~MatchesSubTexture(sf, params, gpu_addr)
            THEN Unmatched(c0, "FullMatch")
            ELSE Rebuilt(RebuildSurface(c0, current_surface,
                                        IF view # NullView THEN MirageParams(sf) ELSE params,
                                        is_render),
                         view # NullView)
        Related(c0, overlaps, bad, sf) ==
            IF bad # {}
            THEN Unmatched(c0, MatchesTopology(
                                   c0.surf[overlaps[CHOOSE i \in bad : \A j \in bad : i <= j]], params))
            ELSE IF \/ Len(overlaps) > 1
                    \/ (~IsInside(sf, gpu_addr, gpu_addr + candidate_size) /\ sf.gpu_addr = gpu_addr)
            THEN Reconstructed(TryReconstructSurface(c0, overlaps, params, gpu_addr))
            ELSE IF ~IsInside(sf, gpu_addr, gpu_addr + candidate_size)
            THEN Unmatched(c0, "FullMatch")
            ELSE Inside(c0, overlaps[1], sf,
                        EmplaceView(c0, overlaps[1], params, gpu_addr, candidate_size))
        Finished(t, overlaps) ==
            IF t.found THEN [c |-> t.c, s |-> t.s, view |-> t.view]
            ELSE RecycleSurface(t.c, overlaps, params, gpu_addr, preserve_contents,
                                t.untopological)
        Scanned(c0, overlaps) ==
            IF overlaps = <<>>
            THEN InitializeSurface(c0, gpu_addr, params, preserve_contents)
            ELSE Finished(Related(c0, overlaps,
                                  {i \in 1..Len(overlaps) :
                                      MatchesTopology(c0.surf[overlaps[i]], params) # "FullMatch"},
                                  c0.surf[overlaps[1]]),
                          overlaps)
        Scan(scan) == Scanned(scan.c, scan.surfaces)
    IN  Scan(GetSurfacesInRegion(c, cache_addr, candidate_size))

\* Steps 2 and 3: the overlap scan and the relation of the candidate to it.
GetSurfaceOverlaps(c, gpu_addr, cache_addr, params, preserve_contents, is_render) ==
    LET candidate_size == GetGuestSizeInBytes(params)
        \* The outcome of steps 3 to 5: a surface, or the topology result the
        \* overlaps are recycled with.
        Unmatched(cx, result) ==
            [c |-> cx, found |-> FALSE, s |-> 0, view |-> NullView, untopological |-> result]
        Matched(cx, s, view) ==
            [c |-> cx, found |-> TRUE, s |-> s, view |-> view, untopological |-> "FullMatch"]
        Reconstructed(t) ==
            IF t.found THEN Matched(t.c, t.s, t.view) ELSE Unmatched(t.c, "FullMatch")
        Mirage(pair, mirage_view) ==
            IF mirage_view # NullView THEN Matched(pair.c, pair.s, mirage_view)
            ELSE Unmatched(pair.c, "FullMatch")
        Rebuilt(pair, is_mirage) ==
            IF is_mirage
            THEN Mirage(pair, EmplaceView(pair.c, pair.s, params, gpu_addr, candidate_size))
            ELSE Matched(pair.c, pair.s, pair.view)
        MirageParams(sf) ==
            [sf.params EXCEPT
                !.width = ConvertWidth(sf.params.width, sf.params.pixel_format, params.pixel_format),
                !.height = ConvertHeight(sf.params.height, sf.params.pixel_format, params.pixel_format),
                !.pixel_format = params.pixel_format]
        \* One overlap that holds the candidate: its view when the formats
        \* match, a rebuild for a mirage view or a matching subtexture.
        Inside(c0, current_surface, sf, view) ==
            IF view # NullView /\ MatchFormat(sf, params.pixel_format)
            THEN Matched(c0, current_surface, view)
            ELSE IF /\ view = NullView
                    /\ (c0.use_accurate_gpu_emulation \/ ~MatchesSubTexture(sf, params, gpu_addr))
            THEN Unmatched(c0, "FullMatch")
            ELSE Rebuilt(RebuildSurface(c0, current_surface,
                                        IF view # NullView THEN MirageParams(sf) ELSE params,
                                        is_render),
                         view # NullView)
        Related(c0, overlaps, bad, sf) ==
            IF bad # {}
            THEN Unmatched(c0, MatchesTopology(
                                   c0.surf[overlaps[CHOOSE i \in bad : \A j \in bad : i <= j]], params))
            ELSE IF \/ Len(overlaps) > 1
                    \/ (~IsInside(sf, gpu_addr, gpu_addr + candidate_size) /\ sf.gpu_addr = gpu_addr)
            THEN Reconstructed(TryReconstructSurface(c0, overlaps, params, gpu_addr))
            ELSE IF ~IsInside(sf, gpu_addr, gpu_addr + candidate_size)
            THEN Unmatched(c0, "FullMatch")
            ELSE Inside(c0, overlaps[1], sf,
                        EmplaceView(c0, overlaps[1], params, gpu_addr, candidate_size))
        Finished(t, overlaps) ==
            IF t.found THEN [c |-> t.c, s |-> t.s, view |-> t.view]
            ELSE RecycleSurface(t.c, overlaps, params, gpu_addr, preserve_contents,
                                t.untopological)
        Scanned(c0, overlaps) ==
            IF overlaps = <<>>
            THEN InitializeSurface(c0, gpu_addr, params, preserve_contents)
            ELSE Finished(Related(c0, overlaps,
                                  {i \in 1..Len(overlaps) :
                                      MatchesTopology(c0.surf[overlaps[i]], params) # "FullMatch"},
                                  c0.surf[overlaps[1]]),
                          overlaps)
        Scan(scan) == Scanned(scan.c, scan.surfaces)
    IN  Scan(GetSurfacesInRegion(c, cache_addr, candidate_size))

\* Step 1 without the test of the target of a 3D candidate.
GetSurfaceL1_AnyTarget(c, gpu_addr, cache_addr, params, preserve_contents, is_render) ==
    LET hit == cache_addr \in DOMAIN c.l1_cache
        current_surface == IF hit THEN c.l1_cache[cache_addr] ELSE 0
        sf == c.surf[current_surface]
        topological_result == IF hit THEN MatchesTopology(sf, params) ELSE "FullMatch"
        struct_result == IF hit THEN MatchesStructure(sf, params) ELSE "None"
    IN  IF topological_result # "FullMatch"
        THEN RecycleSurface(c, <<current_surface>>, params, gpu_addr, preserve_contents,
                            topological_result)
        ELSE IF struct_result # "None"
        THEN IF struct_result = "FullMatch"
             THEN ManageStructuralMatch(c, current_surface, params, is_render)
             ELSE RebuildSurface(c, current_surface, params, is_render)
        ELSE GetSurfaceOverlaps(c, gpu_addr, cache_addr, params, preserve_contents, is_render)

\* Step 1: the L1 lookup by the cache address, then steps 2 to 5.  A miss
\* counts as a surface that matches neither way.
GetSurfaceL1(c, gpu_addr, cache_addr, params, preserve_contents, is_render) ==
    LET hit == cache_addr \in DOMAIN c.l1_cache
        current_surface == IF hit THEN c.l1_cache[cache_addr] ELSE 0
        sf == c.surf[current_surface]
        topological_result == IF hit THEN MatchesTopology(sf, params) ELSE "FullMatch"
        struct_result == IF hit THEN MatchesStructure(sf, params) ELSE "None"
    IN  IF topological_result # "FullMatch"
        THEN RecycleSurface(c, <<current_surface>>, params, gpu_addr, preserve_contents,
                            topological_result)
        ELSE IF /\ struct_result # "None"
                /\ (params.target # "Texture3D" \/ MatchTarget(sf, params.target))
        THEN IF struct_result = "FullMatch"
             THEN ManageStructuralMatch(c, current_surface, params, is_render)
             ELSE RebuildSurface(c, current_surface, params, is_render)
        ELSE GetSurfaceOverlaps(c, gpu_addr, cache_addr, params, preserve_contents, is_render)

\* Variant of GetSurface whose step 0 keeps the requested dimensions.
GetSurface_NoNullSurface(c, gpu_addr, params, preserve_contents, is_render) ==
    IF ToCacheAddr(GetPointer(gpu_addr)) = 0
    THEN InitializeSurface(c, gpu_addr, params, FALSE)
    ELSE GetSurfaceL1(c, gpu_addr, ToCacheAddr(GetPointer(gpu_addr)), params,
                      preserve_contents, is_render)

GetSurface(c, gpu_addr, params, preserve_contents, is_render) ==
    IF ToCacheAddr(GetPointer(gpu_addr)) = 0
    THEN InitializeSurface(c, gpu_addr,
             [params EXCEPT !.width = 1, !.height = 1, !.depth = 1,
                            !.block_height = 0, !.block_depth = 0], FALSE)
    ELSE GetSurfaceL1(c, gpu_addr, ToCacheAddr(GetPointer(gpu_addr)), params,
                      preserve_contents, is_render)

\* ------------------------------------------------------------------------
\* State
\* ------------------------------------------------------------------------
VARIABLES
    surfaces,                   \* identity -> surface object
    registry,                   \* page -> list of surfaces
    l1_cache,                   \* cache address -> surface
    surface_reserve,            \* params -> list of surfaces
    render_targets,             \* colour slot -> [target, view]
    depth_buffer,               \* [target, view]
    sampled_textures,           \* surfaces sampled under GuardSamplers
    ticks,
    guard_render_targets,
    guard_samplers,
    use_accurate_gpu_emulation, \* Settings::values
    dirty_flags,                \* Maxwell3D::dirty_flags
    cached_pages,               \* rasterizer page counts
    log,                        \* backend / bookkeeping events of the last call
    last_call,                  \* the last public call, its arguments and result
    prev_call,                  \* the lookup before the last InvalidateRegion, kept
                                \* through the lookup that follows it
    ub_hit,                     \* an end iterator has been erased
    inside,                     \* thread -> the entry point it is executing
    lock_owner                  \* the thread holding `mutex`, 0 when free

vars == <<surfaces, registry, l1_cache, surface_reserve, render_targets, depth_buffer,
          sampled_textures, ticks, guard_render_targets, guard_samplers,
          use_accurate_gpu_emulation, dirty_flags, cached_pages, log, last_call,
          prev_call, ub_hit, inside, lock_owner>>

RenderTargetIds == 0..(MaxRenderTargets - 1)

Threads == 1..MaxThreads
Idle == "Idle"

\* A call made by the only caller: no other thread is inside the engine.
Sequential == UNCHANGED <<inside, lock_owner>>

EmptySlot == [target |-> 0, view |-> NullView]

NoCall == [op |-> "None", gpu_addr |-> 0, params |-> NullParams, preserve_contents |-> FALSE,
           is_render |-> FALSE, addr |-> 0, size |-> 0, index |-> 0, surface |-> 0,
           surface2 |-> 0, view |-> NullView]

\* The engine state as the record the operators work on.
Cur(ub) ==
    [surf |-> [s \in 0..MaxSurfaces |-> IF s = 0 THEN NullSurface ELSE surfaces[s]],
     registry |-> registry, l1_cache |-> l1_cache, surface_reserve |-> surface_reserve,
     render_targets |-> render_targets, depth_buffer |-> depth_buffer,
     sampled_textures |-> sampled_textures, ticks |-> ticks,
     guard_render_targets |-> guard_render_targets, guard_samplers |-> guard_samplers,
     use_accurate_gpu_emulation |-> use_accurate_gpu_emulation, dirty_flags |-> dirty_flags,
     cached_pages |-> cached_pages, log |-> <<>>, ok |-> TRUE, ub |-> ub, ub_seen |-> FALSE]

SeqRange(list) == {list[i] : i \in 1..Len(list)}

\* Surfaces something still refers to: shared ownership keeps them alive.
Referenced(c) ==
    UNION {SeqRange(c.registry[p]) : p \in DOMAIN c.registry}
    \cup {c.l1_cache[a] : a \in DOMAIN c.l1_cache}
    \cup UNION {SeqRange(c.surface_reserve[p]) : p \in DOMAIN c.surface_reserve}
    \cup {c.render_targets[i].target : i \in RenderTargetIds}
    \cup {c.depth_buffer.target}
    \cup SeqRange(c.sampled_textures)

UBChoices == {"none", "pop_back"}

\* The state after a call: c is the engine after it, call its record.
Commit(c, call) ==
    LET followed == IF call.op = "InvalidateRegion" /\ last_call.op = "GetTextureSurface"
                    THEN last_call
                    ELSE IF call.op = "GetTextureSurface" /\ last_call.op = "InvalidateRegion"
                    THEN prev_call
                    ELSE NoCall
        keep == Referenced(c) \cup {call.surface, call.surface2, followed.surface}
    IN  /\ c.ok
        /\ c.ub = "none" \/ c.ub_seen
        /\ surfaces' = [s \in SurfaceIds |-> IF s \in keep THEN c.surf[s] ELSE NullSurface]
        /\ registry' = c.registry
        /\ l1_cache' = c.l1_cache
        /\ surface_reserve' = c.surface_reserve
        /\ render_targets' = c.render_targets
        /\ depth_buffer' = c.depth_buffer
        /\ sampled_textures' = c.sampled_textures
        /\ ticks' = c.ticks
        /\ guard_render_targets' = c.guard_render_targets
        /\ guard_samplers' = c.guard_samplers
        /\ use_accurate_gpu_emulation' = c.use_accurate_gpu_emulation
        /\ dirty_flags' = c.dirty_flags
        /\ cached_pages' = c.cached_pages
        /\ log' = c.log
        /\ last_call' = call
        /\ prev_call' = followed
        /\ ub_hit' = (ub_hit \/ c.ub_seen)

Init ==
    /\ surfaces = [s \in SurfaceIds |-> NullSurface]
    /\ registry = EmptyMap
    /\ l1_cache = EmptyMap
    /\ surface_reserve = EmptyMap
    /\ render_targets = [i \in RenderTargetIds |-> EmptySlot]
    /\ depth_buffer = EmptySlot
    /\ sampled_textures = <<>>
    /\ ticks = 0
    /\ guard_render_targets = FALSE
    /\ guard_samplers = FALSE
    /\ use_accurate_gpu_emulation \in BOOLEAN
    /\ dirty_flags = [color_buffer |-> [i \in RenderTargetIds |-> TRUE], zeta_buffer |-> TRUE]
    /\ cached_pages = EmptyMap
    /\ log = <<>>
    /\ last_call = NoCall
    /\ prev_call = NoCall
    /\ ub_hit = FALSE
    /\ inside = [t \in Threads |-> Idle]
    /\ lock_owner = 0

\* ------------------------------------------------------------------------
\* Inputs
\* ------------------------------------------------------------------------
\* Half-page colour targets: PH plain, PS and PT 3D slices (block depth 1)
\* of four and of two bytes per pixel.
PH == MakeParams(TRUE, 0, "Texture2D", "ABGR8U", RowWidth, 1)
PS == MakeParams(TRUE, 1, "Texture2D", "ABGR8U", RowWidth, 1)
PT == MakeParams(TRUE, 1, "Texture2D", "R16U", 2 * RowWidth, 1)
\* One-page textures and their two-level mip chains (a page and a half).
PA == MakeParams(TRUE, 0, "Texture2D", "ABGR8U", 2 * RowWidth, 1)
PM == MakeParams(TRUE, 0, "Texture2D", "ABGR8U", 2 * RowWidth, 2)
PR == MakeParams(TRUE, 0, "Texture2D", "R32F", 2 * RowWidth, 1)
PZ == MakeParams(TRUE, 0, "Texture2D", "Z32F", 2 * RowWidth, 1)
PZM == MakeParams(TRUE, 0, "Texture2D", "Z32F", 2 * RowWidth, 2)
PL == MakeParams(FALSE, 0, "Texture2D", "ABGR8U", 2 * RowWidth, 1)
\* One-page textures of a 3D block layout, of a compressed and of an
\* uncompressed 8-byte format.
P3 == MakeParams(TRUE, 2, "Texture2D", "ABGR8U", 2 * RowWidth, 1)
PC == MakeParams(TRUE, 0, "Texture2D", "DXT1", RowWidth, 1)
PG == MakeParams(TRUE, 0, "Texture2D", "RG32F", RowWidth, 1)
\* A half-page depth buffer.
PD == MakeParams(TRUE, 0, "Texture2D", "Z32F", RowWidth, 1)
\* The two-level mip chain of a half-page base (the second level is a
\* quarter page).
PHM == MakeParams(TRUE, 0, "Texture2D", "ABGR8U", RowWidth, 2)

TextureParams == {PA, PM, PH, PR, PZM, PL}
FramebufferParams == {PA, PS, PH, PL}
DepthParams == {PZ}
FermiParams == {PA, PH}

GpuAddrs == MappedGpuAddrs \cup {GpuUnmapped}
CacheAddrs == {GetPointer(a) : a \in MappedGpuAddrs}
RegionSizes == {0, HalfPage, 2 * HalfPage, 3 * HalfPage}

\* The narrower inputs of the focused specifications: colour slot 0, the
\* start of the mapped block and its first two half pages.
LookupParams == {PZM, PR}
LookupAddrs == {0, GpuUnmapped, GpuBase}
GuardConfigs == {GpuBase} \X {PS, PT, PH}
FlushConfigs == {<<>>} \cup ({GpuBase, GpuBase + HalfPage} \X {PH})
FocusCacheAddrs == {HostBase, HostBase + HalfPage}
FocusSizes == {HalfPage, 2 * HalfPage}
RegionLookups == {<<GpuBase, PM>>, <<GpuBase, PH>>, <<GpuBase + HalfPage, PH>>}
RegionAddrs == {HostBase + k * HalfPage : k \in 0..2}
ScanAddrs == {HostBase, HostBase + HalfPage}
ScanSizes == {0, HalfPage, 3 * HalfPage}
RecycleParams == {PL, PA, P3, PC, PG}
RecycleLookups == {<<GpuBase, PL>>, <<GpuBase + HalfPage, PL>>, <<GpuBase, P3>>}
ScanLookups ==
    {<<GpuBase, MakeParams(FALSE, 0, "Texture2D", "ABGR8U", RowWidth, 1)>>,
     <<GpuBase + HalfPage, PH>>,
     <<GpuBase + HalfPage \div 2, PH>>,
     <<GpuBase + HalfPage \div 2, PHM>>}
InsideLookups ==
    ({GpuBase} \X {PH, PHM, MakeParams(TRUE, 0, "Texture2D", "Z32F", RowWidth, 2)})
    \cup ({GpuBase + HalfPage}
             \X {MakeParams(TRUE, 0, "Texture2D", "ABGR8U", RowWidth \div 2, 1),
                 MakeParams(TRUE, 0, "Texture2D", "R32F", RowWidth \div 2, 1)})
InsideTarget == [PH EXCEPT !.depth = 2]
TargetConfigs == {<<>>} \cup ({GpuBase, GpuBase + HalfPage} \X {PH})
ZetaConfigs == {<<>>, <<GpuBase + HalfPage, PD>>}

\* ------------------------------------------------------------------------
\* Public entry points
\* ------------------------------------------------------------------------
LookupCall(op, gpu_addr, params, preserve_contents, is_render, index, r) ==
    [NoCall EXCEPT !.op = op, !.gpu_addr = gpu_addr, !.params = params,
                   !.preserve_contents = preserve_contents, !.is_render = is_render,
                   !.index = index, !.surface = r.s, !.view = r.view]

InvalidateRegion(addr, size) ==
    \E ub \in UBChoices :
        LET Scanned(scan) ==
                Commit(UnregisterAll(scan.c, scan.surfaces, 1),
                       [NoCall EXCEPT !.op = "InvalidateRegion", !.addr = addr, !.size = size])
        IN  Scanned(GetSurfacesInRegion(Cur(ub), addr, size))

GuardRenderTargets(new_guard) ==
    Commit([Cur("none") EXCEPT !.guard_render_targets = new_guard],
           [NoCall EXCEPT !.op = "GuardRenderTargets"])

GuardSamplers(new_guard) ==
    Commit([Cur("none") EXCEPT !.guard_samplers = new_guard],
           [NoCall EXCEPT !.op = "GuardSamplers"])

FlushRegion(addr, size) ==
    LET Scanned(scan) ==
            Commit(IF scan.surfaces = <<>> THEN scan.c
                   ELSE FlushAll(scan.c, SortByTick(scan.c, scan.surfaces), 1),
                   [NoCall EXCEPT !.op = "FlushRegion", !.addr = addr, !.size = size])
    IN  Scanned(GetSurfacesInRegion(Cur("none"), addr, size))

GetTextureSurface(gpu_addr, params) ==
    \E ub \in UBChoices :
        IF gpu_addr = 0
        THEN Commit(Cur(ub), [NoCall EXCEPT !.op = "GetTextureSurface", !.params = params])
        ELSE LET Sampled(r) ==
                     Commit(IF r.c.guard_samplers
                            THEN [r.c EXCEPT !.sampled_textures = Append(@, r.s),
                                             !.ok = @ /\ Len(r.c.sampled_textures) < MaxSampled]
                            ELSE r.c,
                            LookupCall("GetTextureSurface", gpu_addr, params, TRUE, FALSE, 0, r))
             IN  Sampled(GetSurface(Cur(ub), gpu_addr, params, TRUE, FALSE))

TextureBarrier ==
    LET c == Cur("none")
        any_rt == \E i \in 1..Len(c.sampled_textures) : c.surf[c.sampled_textures[i]].is_target
    IN  Commit([c EXCEPT !.sampled_textures = <<>>],
               [NoCall EXCEPT !.op = "TextureBarrier", !.is_render = any_rt])

SetEmptyDepthBufferOp(c) ==
    IF c.depth_buffer.target = 0 THEN c
    ELSE [MarkAsRenderTarget(c, c.depth_buffer.target, FALSE) EXCEPT !.depth_buffer = EmptySlot]

SetEmptyColorBufferOp(c, index) ==
    IF c.render_targets[index].target = 0 THEN c
    ELSE [MarkAsRenderTarget(c, c.render_targets[index].target, FALSE)
             EXCEPT !.render_targets[index] = EmptySlot]

\* GetColorBufferSurface without the early return on a clear dirty flag.
GetColorBufferSurface_Always(index, rt, preserve_contents) ==
    \E ub \in UBChoices :
        LET c == Cur(ub)
            Rebound(c3, r) ==
                Commit(IF r.s # 0 THEN MarkAsRenderTarget(c3, r.s, TRUE) ELSE c3,
                       LookupCall("GetColorBufferSurface", rt[1], rt[2], preserve_contents,
                                  TRUE, index, r))
            Unbound(c2, r) ==
                Rebound([c2 EXCEPT !.render_targets[index] = [target |-> r.s, view |-> r.view]], r)
            Found(r) ==
                Unbound(IF r.c.render_targets[index].target # 0
                        THEN MarkAsRenderTarget(r.c, r.c.render_targets[index].target, FALSE)
                        ELSE r.c, r)
        IN  IF rt = <<>>
            THEN Commit(SetEmptyColorBufferOp([c EXCEPT !.dirty_flags.color_buffer[index] = FALSE],
                                              index),
                        [NoCall EXCEPT !.op = "GetColorBufferSurface", !.index = index,
                                       !.preserve_contents = preserve_contents])
            ELSE Found(GetSurface([c EXCEPT !.dirty_flags.color_buffer[index] = FALSE],
                                  rt[1], rt[2], preserve_contents, TRUE))

\* GetColorBufferSurface leaving the render-target mark on the surface the
\* slot held before.
GetColorBufferSurface_NoUnmark(index, rt, preserve_contents) ==
    \E ub \in UBChoices :
        LET c == Cur(ub)
            Rebound(c3, r) ==
                Commit(IF r.s # 0 THEN MarkAsRenderTarget(c3, r.s, TRUE) ELSE c3,
                       LookupCall("GetColorBufferSurface", rt[1], rt[2], preserve_contents,
                                  TRUE, index, r))
            Found(r) ==
                Rebound([r.c EXCEPT !.render_targets[index] = [target |-> r.s, view |-> r.view]],
                        r)
        IN  IF ~c.dirty_flags.color_buffer[index]
            THEN Commit(c, [NoCall EXCEPT !.op = "GetColorBufferSurface", !.index = index,
                                          !.preserve_contents = preserve_contents,
                                          !.view = c.render_targets[index].view])
            ELSE IF rt = <<>>
            THEN Commit(SetEmptyColorBufferOp([c EXCEPT !.dirty_flags.color_buffer[index] = FALSE],
                                              index),
                        [NoCall EXCEPT !.op = "GetColorBufferSurface", !.index = index,
                                       !.preserve_contents = preserve_contents])
            ELSE Found(GetSurface([c EXCEPT !.dirty_flags.color_buffer[index] = FALSE],
                                  rt[1], rt[2], preserve_contents, TRUE))

\* zeta: <<>> for a disabled depth buffer, else <<address, params>>.
GetDepthBufferSurface(zeta, preserve_contents) ==
    \E ub \in UBChoices :
        LET c == Cur(ub)
            Rebound(c3, r) ==
                Commit(IF r.s # 0 THEN MarkAsRenderTarget(c3, r.s, TRUE) ELSE c3,
                       LookupCall("GetDepthBufferSurface", zeta[1], zeta[2], preserve_contents,
                                  TRUE, 0, r))
            Unbound(c2, r) ==
                Rebound([c2 EXCEPT !.depth_buffer = [target |-> r.s, view |-> r.view]], r)
            Found(r) ==
                Unbound(IF r.c.depth_buffer.target # 0
                        THEN MarkAsRenderTarget(r.c, r.c.depth_buffer.target, FALSE)
                        ELSE r.c, r)
        IN  IF ~c.dirty_flags.zeta_buffer
            THEN Commit(c, [NoCall EXCEPT !.op = "GetDepthBufferSurface",
                                          !.preserve_contents = preserve_contents,
                                          !.view = c.depth_buffer.view])
            ELSE IF zeta = <<>>
            THEN Commit(SetEmptyDepthBufferOp([c EXCEPT !.dirty_flags.zeta_buffer = FALSE]),
                        [NoCall EXCEPT !.op = "GetDepthBufferSurface",
                                       !.preserve_contents = preserve_contents])
            ELSE Found(GetSurface([c EXCEPT !.dirty_flags.zeta_buffer = FALSE],
                                  zeta[1], zeta[2], preserve_contents, TRUE))

\* rt: <<>> for a disabled colour target, else <<address, params>>.
GetColorBufferSurface(index, rt, preserve_contents) ==
    \E ub \in UBChoices :
        LET c == Cur(ub)
            Rebound(c3, r) ==
                Commit(IF r.s # 0 THEN MarkAsRenderTarget(c3, r.s, TRUE) ELSE c3,
                       LookupCall("GetColorBufferSurface", rt[1], rt[2], preserve_contents,
                                  TRUE, index, r))
            Unbound(c2, r) ==
                Rebound([c2 EXCEPT !.render_targets[index] = [target |-> r.s, view |-> r.view]], r)
            Found(r) ==
                Unbound(IF r.c.render_targets[index].target # 0
                        THEN MarkAsRenderTarget(r.c, r.c.render_targets[index].target, FALSE)
                        ELSE r.c, r)
        IN  IF ~c.dirty_flags.color_buffer[index]
            THEN Commit(c, [NoCall EXCEPT !.op = "GetColorBufferSurface", !.index = index,
                                          !.preserve_contents = preserve_contents,
                                          !.view = c.render_targets[index].view])
            ELSE IF rt = <<>>
            THEN Commit(SetEmptyColorBufferOp([c EXCEPT !.dirty_flags.color_buffer[index] = FALSE],
                                              index),
                        [NoCall EXCEPT !.op = "GetColorBufferSurface", !.index = index,
                                       !.preserve_contents = preserve_contents])
            ELSE Found(GetSurface([c EXCEPT !.dirty_flags.color_buffer[index] = FALSE],
                                  rt[1], rt[2], preserve_contents, TRUE))

MarkColorBufferInUse(index) ==
    LET c == Cur("none")
        render_target == c.render_targets[index].target
        c1 == Tick(c)
    IN  Commit(IF render_target # 0 THEN MarkAsModified(c1, render_target, TRUE, c1.ticks) ELSE c,
               [NoCall EXCEPT !.op = "MarkColorBufferInUse", !.index = index])

\* MarkDepthBufferInUse stamping with the tick already issued.
MarkDepthBufferInUse_StaleTick ==
    LET c == Cur("none")
    IN  Commit(IF c.depth_buffer.target # 0
               THEN MarkAsModified(c, c.depth_buffer.target, TRUE, c.ticks) ELSE c,
               [NoCall EXCEPT !.op = "MarkDepthBufferInUse"])

MarkDepthBufferInUse ==
    LET c == Cur("none")
        c1 == Tick(c)
    IN  Commit(IF c.depth_buffer.target # 0
               THEN MarkAsModified(c1, c.depth_buffer.target, TRUE, c1.ticks) ELSE c,
               [NoCall EXCEPT !.op = "MarkDepthBufferInUse"])

SetEmptyDepthBuffer ==
    Commit(SetEmptyDepthBufferOp(Cur("none")), [NoCall EXCEPT !.op = "SetEmptyDepthBuffer"])

SetEmptyColorBuffer(index) ==
    Commit(SetEmptyColorBufferOp(Cur("none"), index),
           [NoCall EXCEPT !.op = "SetEmptyColorBuffer", !.index = index])

GetFermiSurface(c, config) == GetSurface(c, config[1], config[2], TRUE, FALSE)

DoFermiCopy(src_config, dst_config) ==
    \E ub \in UBChoices :
        LET Marked(c2, dst_surface, src_surface) ==
                Commit(MarkAsModified(c2, dst_surface.s, TRUE, c2.ticks),
                       [LookupCall("DoFermiCopy", dst_config[1], dst_config[2], TRUE, FALSE, 0,
                                   dst_surface) EXCEPT !.surface2 = src_surface.s])
            Blit(dst_surface, src_surface) ==
                Marked(Tick(Emit(src_surface.c, <<"ImageBlit", src_surface.s, dst_surface.s>>)),
                       dst_surface, src_surface)
            Source(dst_surface) == Blit(dst_surface, GetFermiSurface(dst_surface.c, src_config))
        IN  Source(GetFermiSurface(Cur(ub), dst_config))

TryFindFramebufferSurface(host_ptr) ==
    LET c == Cur("none")
        cache_addr == ToCacheAddr(host_ptr)
        list == Bucket(c, cache_addr \div registry_page_size)
        hits == {i \in 1..Len(list) : c.surf[list[i]].cache_addr = cache_addr}
        found == IF cache_addr = 0 \/ hits = {} THEN 0
                 ELSE list[CHOOSE i \in hits : \A j \in hits : i <= j]
    IN  Commit(c, [NoCall EXCEPT !.op = "TryFindFramebufferSurface", !.addr = host_ptr,
                                 !.surface = found])

TickCall == Commit(Tick(Cur("none")), [NoCall EXCEPT !.op = "Tick"])

\* Maxwell3D::CallMethod writing a render-target or zeta register.
CallMethodRt(index) ==
    Commit([Cur("none") EXCEPT !.dirty_flags.color_buffer[index] = TRUE],
           [NoCall EXCEPT !.op = "CallMethod"])

CallMethodZeta ==
    Commit([Cur("none") EXCEPT !.dirty_flags.zeta_buffer = TRUE],
           [NoCall EXCEPT !.op = "CallMethod"])

Next ==
    \/ \E addr \in CacheAddrs, size \in RegionSizes : InvalidateRegion(addr, size) /\ Sequential
    \/ \E b \in BOOLEAN : GuardRenderTargets(b) /\ Sequential
    \/ \E b \in BOOLEAN : GuardSamplers(b) /\ Sequential
    \/ \E addr \in CacheAddrs, size \in RegionSizes : FlushRegion(addr, size) /\ Sequential
    \/ \E a \in GpuAddrs \cup {0}, p \in TextureParams : GetTextureSurface(a, p) /\ Sequential
    \/ TextureBarrier /\ Sequential
    \/ \E zeta \in {<<>>} \cup (GpuAddrs \X DepthParams), b \in BOOLEAN : GetDepthBufferSurface(zeta, b) /\ Sequential
    \/ \E i \in RenderTargetIds, rt \in {<<>>} \cup (GpuAddrs \X FramebufferParams), b \in BOOLEAN :
            GetColorBufferSurface(i, rt, b) /\ Sequential
    \/ \E i \in RenderTargetIds : MarkColorBufferInUse(i) /\ Sequential
    \/ MarkDepthBufferInUse /\ Sequential
    \/ SetEmptyDepthBuffer /\ Sequential
    \/ \E i \in RenderTargetIds : SetEmptyColorBuffer(i) /\ Sequential
    \/ \E s \in GpuAddrs \X FermiParams, d \in GpuAddrs \X FermiParams : DoFermiCopy(s, d) /\ Sequential
    \/ \E a \in CacheAddrs \cup {0} : TryFindFramebufferSurface(a) /\ Sequential
    \/ TickCall /\ Sequential
    \/ \E i \in RenderTargetIds : CallMethodRt(i) /\ Sequential
    \/ CallMethodZeta /\ Sequential

Spec == Init /\ [][Next]_vars

\* Texture lookups against invalidation.
NextLookup ==
    \/ \E a \in LookupAddrs, p \in LookupParams : GetTextureSurface(a, p) /\ Sequential
    \/ \E size \in FocusSizes : InvalidateRegion(HostBase, size) /\ Sequential

SpecLookup == Init /\ [][NextLookup]_vars

\* Colour targets under the render-target guard against invalidation.
NextGuard ==
    \/ \E b \in BOOLEAN : GuardRenderTargets(b) /\ Sequential
    \/ \E rt \in GuardConfigs : GetColorBufferSurface(0, rt, FALSE) /\ Sequential
    \/ CallMethodRt(0) /\ Sequential
    \/ \E size \in FocusSizes : InvalidateRegion(HostBase, size) /\ Sequential

\* No surface is drawn into here, so the accuracy setting cannot act.
InitGuard == Init /\ ~use_accurate_gpu_emulation

SpecGuard == InitGuard /\ [][NextGuard]_vars

\* Colour targets drawn into and flushed.
NextFlush ==
    \/ \E rt \in FlushConfigs : GetColorBufferSurface(0, rt, FALSE) /\ Sequential
    \/ MarkColorBufferInUse(0) /\ Sequential
    \/ CallMethodRt(0) /\ Sequential
    \/ \E addr \in FocusCacheAddrs, size \in FocusSizes : FlushRegion(addr, size) /\ Sequential

SpecFlush == Init /\ [][NextFlush]_vars

\* Lookups that recycle: linear and 3D textures at overlapping addresses and
\* a tiled colour target, with and without its contents.
NextRecycle ==
    \/ \E l \in RecycleLookups : GetTextureSurface(l[1], l[2]) /\ Sequential
    \/ \E b \in BOOLEAN : GetColorBufferSurface(0, <<GpuBase + HalfPage, PA>>, b) /\ Sequential
    \/ CallMethodRt(0) /\ Sequential

SpecRecycle == Init /\ [][NextRecycle]_vars

\* Textures of one and of two page buckets against the invalidation of
\* regions of zero, one and three half pages.
NextRegion ==
    \/ \E l \in RegionLookups : GetTextureSurface(l[1], l[2]) /\ Sequential
    \/ \E addr \in ScanAddrs, size \in ScanSizes : InvalidateRegion(addr, size) /\ Sequential

SpecRegion == Init /\ [][NextRegion]_vars

\* Lookups that hit the L1 cache: at the start of the block a half-page
\* depth buffer drawn into, textures of half a page and of one page in Z32F,
\* its sibling R32F and ABGR8U, and an R32F colour target.
NextRebuild ==
    \/ \E p \in {PD, PZ, PR, PA} : GetTextureSurface(GpuBase, p) /\ Sequential
    \/ GetDepthBufferSurface(<<GpuBase, PD>>, FALSE) /\ Sequential
    \/ MarkDepthBufferInUse /\ Sequential
    \/ GetColorBufferSurface(0, <<GpuBase, PR>>, FALSE) /\ Sequential

SpecRebuild == Init /\ [][NextRebuild]_vars

\* Lookups that reconstruct and recycle: colour targets of half a page at
\* both half pages, drawn into, and at the start the mip chain whose first
\* level is a half page, as a texture and as a colour target.
NextReconstruct ==
    \/ GetTextureSurface(GpuBase, PHM) /\ Sequential
    \/ \E rt \in {<<GpuBase, PH>>, <<GpuBase + HalfPage, PH>>, <<GpuBase, PHM>>} :
            GetColorBufferSurface(0, rt, FALSE) /\ Sequential
    \/ MarkColorBufferInUse(0) /\ Sequential
    \/ CallMethodRt(0) /\ Sequential

SpecReconstruct == Init /\ [][NextReconstruct]_vars

\* Lookups inside one overlap: a colour target of two depth slices, drawn
\* into, textures of half a page and of a mip chain in ABGR8U and in Z32F at
\* the start of the block, and inside them quarter pages in ABGR8U and in
\* R32F.
NextInside ==
    \/ \E l \in InsideLookups : GetTextureSurface(l[1], l[2]) /\ Sequential
    \/ GetColorBufferSurface(0, <<GpuBase, InsideTarget>>, FALSE) /\ Sequential
    \/ MarkColorBufferInUse(0) /\ Sequential

SpecInside == Init /\ [][NextInside]_vars

\* Lookups whose overlap scan meets another topology: a linear half page at
\* the start of the block, a tiled half page after it, and a quarter page
\* into the block a tiled half page and a mip chain that overlap both.
NextScan == \E l \in ScanLookups : GetTextureSurface(l[1], l[2]) /\ Sequential

SpecScan == Init /\ [][NextScan]_vars

\* Lookups that hit the L1 cache with a candidate larger than the surface
\* found, next to a second surface: half pages at both half pages, and at
\* the start of the block a tiled and a linear page; the first half page is
\* invalidated.
NextGrow ==
    \/ \E p \in {PH, PA, PL} : GetTextureSurface(GpuBase, p) /\ Sequential
    \/ GetTextureSurface(GpuBase + HalfPage, PH) /\ Sequential
    \/ InvalidateRegion(HostBase, HalfPage) /\ Sequential

SpecGrow == Init /\ [][NextGrow]_vars

\* Two colour slots resolved to the same and to different half pages,
\* rebound after a register write and emptied.
NextSlots ==
    \/ \E i \in RenderTargetIds, rt \in FlushConfigs :
            GetColorBufferSurface(i, rt, FALSE) /\ Sequential
    \/ \E i \in RenderTargetIds : SetEmptyColorBuffer(i) /\ Sequential
    \/ \E i \in RenderTargetIds : CallMethodRt(i) /\ Sequential

SpecSlots == Init /\ [][NextSlots]_vars

\* 2D-engine copies between half pages at both half pages and a page at
\* the start of the block; the block is flushed.
FermiConfigs == {<<GpuBase, PH>>, <<GpuBase + HalfPage, PH>>, <<GpuBase, PA>>}

NextFermi ==
    \/ \E s \in FermiConfigs, d \in FermiConfigs : DoFermiCopy(s, d) /\ Sequential
    \/ FlushRegion(HostBase, 2 * HalfPage) /\ Sequential

SpecFermi == Init /\ [][NextFermi]_vars

\* The colour and the depth target resolved, drawn into and re-resolved.
NextTargets ==
    \/ \E rt \in TargetConfigs : GetColorBufferSurface(0, rt, FALSE) /\ Sequential
    \/ \E zeta \in ZetaConfigs : GetDepthBufferSurface(zeta, FALSE) /\ Sequential
    \/ MarkColorBufferInUse(0) /\ Sequential
    \/ MarkDepthBufferInUse /\ Sequential
    \/ CallMethodRt(0) /\ Sequential
    \/ CallMethodZeta /\ Sequential

SpecTargets == Init /\ [][NextTargets]_vars

\* ------------------------------------------------------------------------
\* Callers on several threads
\* ------------------------------------------------------------------------
\* The entry points whose body opens with std::lock_guard lock{mutex}.
LockedEntryPoints ==
    {"InvalidateRegion", "FlushRegion", "GetTextureSurface", "GetDepthBufferSurface",
     "GetColorBufferSurface", "DoFermiCopy"}

\* The entry points whose body takes no lock.
UnlockedEntryPoints ==
    {"GuardRenderTargets", "GuardSamplers", "TextureBarrier", "MarkColorBufferInUse",
     "MarkDepthBufferInUse", "SetEmptyDepthBuffer", "SetEmptyColorBuffer",
     "TryFindFramebufferSurface", "Tick"}

EntryPoints == LockedEntryPoints \cup UnlockedEntryPoints

\* A thread steps into an entry point: the lock_guard, where the body has
\* one, blocks until the recursive mutex is free or already its own.
Enter(t, op) ==
    /\ inside[t] = Idle
    /\ op \in LockedEntryPoints => lock_owner \in {0, t}
    /\ inside' = [inside EXCEPT ![t] = op]
    /\ lock_owner' = IF op \in LockedEntryPoints THEN t ELSE lock_owner
    /\ UNCHANGED <<surfaces, registry, l1_cache, surface_reserve, render_targets,
                   depth_buffer, sampled_textures, ticks, guard_render_targets,
                   guard_samplers, use_accurate_gpu_emulation, dirty_flags, cached_pages,
                   log, last_call, prev_call, ub_hit>>

\* The body of an entry point, on the inputs of the threaded specification.
Body(op) ==
    \/ op = "InvalidateRegion" /\ InvalidateRegion(HostBase, HalfPage)
    \/ op = "FlushRegion" /\ FlushRegion(HostBase, HalfPage)
    \/ op = "GetTextureSurface" /\ GetTextureSurface(GpuBase, PH)
    \/ op = "GetDepthBufferSurface" /\ GetDepthBufferSurface(<<>>, FALSE)
    \/ op = "GetColorBufferSurface" /\ GetColorBufferSurface(0, <<GpuBase, PH>>, FALSE)
    \/ op = "DoFermiCopy" /\ DoFermiCopy(<<GpuBase, PH>>, <<GpuBase, PH>>)
    \/ op = "GuardRenderTargets" /\ GuardRenderTargets(TRUE)
    \/ op = "GuardSamplers" /\ GuardSamplers(TRUE)
    \/ op = "TextureBarrier" /\ TextureBarrier
    \/ op = "MarkColorBufferInUse" /\ MarkColorBufferInUse(0)
    \/ op = "MarkDepthBufferInUse" /\ MarkDepthBufferInUse
    \/ op = "SetEmptyDepthBuffer" /\ SetEmptyDepthBuffer
    \/ op = "SetEmptyColorBuffer" /\ SetEmptyColorBuffer(0)
    \/ op = "TryFindFramebufferSurface" /\ TryFindFramebufferSurface(HostBase)
    \/ op = "Tick" /\ TickCall

\* A thread runs the body and returns; the lock_guard's destructor frees
\* the mutex.
Leave(t) ==
    /\ inside[t] # Idle
    /\ Body(inside[t])
    /\ inside' = [inside EXCEPT ![t] = Idle]
    /\ lock_owner' = IF lock_owner = t THEN 0 ELSE lock_owner

\* The calls the threads make: every entry point but the texture lookup and
\* the Fermi copy.
ThreadCalls == EntryPoints \ {"GetTextureSurface", "DoFermiCopy"}

NextThreads ==
    \/ \E t \in Threads, op \in ThreadCalls : Enter(t, op)
    \/ \E t \in Threads : Leave(t)

SpecThreads == InitGuard /\ [][NextThreads]_vars

\* ------------------------------------------------------------------------
\* Properties
\* ------------------------------------------------------------------------
\* Registry pages the cache-address range of a surface overlaps.
PagesOf(sf) ==
    (sf.cache_addr \div registry_page_size)..((sf.cache_addr_end - 1) \div registry_page_size)

InEveryBucket(s) ==
    \A page \in PagesOf(surfaces[s]) : s \in SeqRange(MapGet(registry, page, <<>>))

IsL1Value(s) == MapGet(l1_cache, surfaces[s].cache_addr, 0) = s

\* The entry points that are one GetSurface call and hand its result back.
LookupOps == {"GetTextureSurface", "GetColorBufferSurface", "GetDepthBufferSurface"}

\* The last call went through GetSurface and returned a surface.
Looked == last_call.op \in LookupOps /\ last_call.surface # 0

Translates(gpu_addr) == ToCacheAddr(GetPointer(gpu_addr)) # 0 /\ GpuToCpuAddress(gpu_addr) # -1

HasEvent(l, kind) == \E i \in 1..Len(l) : l[i][1] = kind

\* C1: in every reachable state a surface is in every registry page bucket
\* its cache-address range overlaps and is the L1 value at its starting cache
\* address if and only if it is registered.
C1_RegisteredIffIndexed ==
    \A s \in SurfaceIds :
        surfaces[s].alive =>
            ((InEveryBucket(s) /\ IsL1Value(s)) <=> surfaces[s].is_registered)

\* C2 as stated: the surface GetSurface returns is registered when it
\* returns, whatever the address.
C2_ReturnedRegistered == Looked => surfaces[last_call.surface].is_registered

\* C2 amended: the surface GetSurface returns for an address that translates
\* is registered when it returns.
C2_ReturnedRegisteredWhenMapped ==
    (Looked /\ Translates(last_call.gpu_addr)) => surfaces[last_call.surface].is_registered

\* A lookup of a mapped address that initialised a surface and registered it.
C2_Witness ==
    /\ Looked
    /\ Translates(last_call.gpu_addr)
    /\ HasEvent(log, "Register")
    /\ surfaces[last_call.surface].is_registered

\* C3 for addresses that translate: two consecutive GetSurface calls with
\* the same address, params and is_render return the same surface.
C3_LookupIdempotent ==
    [][(/\ last_call.op = "GetTextureSurface"
        /\ last_call'.op = "GetTextureSurface"
        /\ Translates(last_call.gpu_addr)
        /\ last_call'.gpu_addr = last_call.gpu_addr
        /\ last_call'.params = last_call.params
        /\ last_call'.is_render = last_call.is_render)
       => last_call'.surface = last_call.surface]_vars

\* Half pages of guest memory the rasterizer counts for a surface.
HalfPagesOf(sf) ==
    (sf.cpu_addr \div HalfPage)..((sf.cpu_addr + GetSizeInBytes(sf) + HalfPage - 1) \div HalfPage - 1)

\* This step is InvalidateRegion over exactly the range of registered surface s.
InvalidatesExactly(s) ==
    /\ last_call'.op = "InvalidateRegion"
    /\ s # 0
    /\ surfaces[s].is_registered
    /\ last_call'.addr = surfaces[s].cache_addr
    /\ last_call'.size = GetSizeInBytes(surfaces[s])

Unregisters(l, s) == \E i \in 1..Len(l) : l[i] = <<"Unregister", s>>

\* The step leaves s registered, in its registry buckets and counted in its pages.
StaysRegistered(s) ==
    /\ surfaces'[s].is_registered
    /\ ~Unregisters(log', s)
    /\ \A page \in PagesOf(surfaces[s]) : s \in SeqRange(MapGet(registry', page, <<>>))
    /\ \A hp \in HalfPagesOf(surfaces[s]) : MapGet(cached_pages', hp, 0) >= 1

L1Unchanged(s) ==
    MapGet(l1_cache', surfaces[s].cache_addr, 0) = MapGet(l1_cache, surfaces[s].cache_addr, 0)

\* The step unregistered another surface that starts where s starts.
UnregistersCoStarting(s) ==
    \E q \in SurfaceIds \ {s} :
        Unregisters(log', q) /\ surfaces[q].cache_addr = surfaces[s].cache_addr

Flushed(l) == SelectSeq(l, LAMBDA e : e[1] = "Flush")

\* C5: FlushRegion writes back a surface of an older modification tick
\* before any overlapping surface of a newer one.
C5_FlushOldestFirst ==
    [][last_call'.op = "FlushRegion" =>
        LET f == Flushed(log')
        IN  \A i, j \in 1..Len(f) :
                surfaces[f[i][2]].modification_tick < surfaces[f[j][2]].modification_tick
                    => i < j]_vars

\* FlushRegion has written back two surfaces, the one that comes later in
\* the registry bucket first.
C5_Witness ==
    /\ last_call.op = "FlushRegion"
    /\ Len(Flushed(log)) = 2
    /\ \E page \in DOMAIN registry :
          \E i, j \in 1..Len(registry[page]) :
              /\ i < j
              /\ registry[page][j] = Flushed(log)[1][2]
              /\ registry[page][i] = Flushed(log)[2][2]

\* Surfaces of reserve[params] in list order.
Reserved(params) == MapGet(surface_reserve, params, <<>>)

\* Whether surface q is registered when event i of log l is about to happen,
\* and whether it has been put into the reserve by an earlier event of l.
RegisteredBefore(l, i, q) ==
    LET marks == {k \in 1..(i - 1) : l[k][2] = q /\ l[k][1] \in {"Register", "Unregister", "Create"}}
    IN  IF marks = {} THEN surfaces[q].is_registered
        ELSE l[CHOOSE k \in marks : \A m \in marks : m <= k][1] = "Register"

ReservedBefore(l, i, q, params) ==
    \/ q \in SeqRange(Reserved(params))
    \/ \E k \in 1..(i - 1) : l[k] = <<"Unregister", q>> /\ surfaces'[q].params = params

\* Event i of log l asks for an uncached surface.
IsUncachedRequest(l, i) == l[i][1] \in {"Create", "Reuse"}

\* C6: the lookup that follows an InvalidateRegion which evicted a surface
\* of params P takes its first uncached surface of params P from the
\* reserve, and no call creates a surface while the reserve list of its
\* params holds an unregistered one.
C6_ReserveBeforeCreate ==
    [][/\ \A i \in 1..Len(log') :
            log'[i][1] = "Create" =>
                \A q \in SurfaceIds :
                    ReservedBefore(log', i, q, log'[i][3]) => RegisteredBefore(log', i, q)
       /\ (last_call.op = "InvalidateRegion" /\ last_call'.op \in LookupOps) =>
            \A q \in SurfaceIds :
                Unregisters(log, q) =>
                    LET asks == {i \in 1..Len(log') : /\ IsUncachedRequest(log', i)
                                                       /\ log'[i][3] = surfaces[q].params}
                    IN  asks # {} =>
                            log'[CHOOSE i \in asks : \A j \in asks : i <= j][1] = "Reuse"]_vars

\* The lookup after an eviction took the evicted surface back from the reserve.
C6_Witness ==
    /\ last_call.op = "GetTextureSurface"
    /\ prev_call.op = "GetTextureSurface"
    /\ \E i \in 1..Len(log) : log[i] = <<"Reuse", prev_call.surface, last_call.params>>
    /\ ~HasEvent(log, "Create")

\* This step is the second lookup of GetSurface(addr, p) ; InvalidateRegion
\* at addr ; GetSurface(addr, p) with the guard off, the first surface
\* having been unregistered.
ReloadsAfterInvalidate ==
    /\ last_call.op = "InvalidateRegion"
    /\ prev_call.op = "GetTextureSurface"
    /\ last_call'.op = "GetTextureSurface"
    /\ last_call'.gpu_addr = prev_call.gpu_addr
    /\ last_call'.params = prev_call.params
    /\ last_call.addr = ToCacheAddr(GetPointer(prev_call.gpu_addr))
    /\ ~guard_render_targets
    /\ prev_call.surface # 0
    /\ ~surfaces[prev_call.surface].is_registered

\* The first unregistered surface of reserve[params], 0 when there is none.
FirstFree(params) ==
    LET list == Reserved(params)
        free == {i \in 1..Len(list) : ~surfaces[list[i]].is_registered}
    IN  IF free = {} THEN 0 ELSE list[CHOOSE i \in free : \A j \in free : i <= j]

NoRegisteredOverlap(cache_addr, size) ==
    \A q \in SurfaceIds :
        surfaces[q].is_registered => ~Overlaps(surfaces[q], cache_addr, cache_addr + size)

\* C7 as stated: the lookup after the invalidation does not return the
\* surface object the lookup before it returned.
C7_ReloadIsNewObject ==
    [][ReloadsAfterInvalidate => last_call'.surface # prev_call.surface]_vars

\* C7 amended: the lookup after the invalidation returns the very surface
\* object the lookup before it returned, registered again, whenever that
\* surface has the requested params, is the first unregistered surface of
\* their reserve list and no registered surface overlaps the requested range.
C7_ReloadReusesObject ==
    [][(/\ ReloadsAfterInvalidate
        /\ surfaces[prev_call.surface].params = prev_call.params
        /\ FirstFree(prev_call.params) = prev_call.surface
        /\ NoRegisteredOverlap(last_call.addr, GetGuestSizeInBytes(prev_call.params)))
       => /\ last_call'.surface = prev_call.surface
          /\ surfaces'[prev_call.surface].is_registered]_vars

\* The reload has returned the object of the first lookup, registered again.
C7_Witness ==
    /\ last_call.op = "GetTextureSurface"
    /\ prev_call.op = "GetTextureSurface"
    /\ last_call.gpu_addr = prev_call.gpu_addr
    /\ last_call.params = prev_call.params
    /\ last_call.surface = prev_call.surface
    /\ last_call.surface # 0
    /\ surfaces[last_call.surface].is_registered
    /\ log[Len(log) - 1] = <<"Register", last_call.surface>>

\* C8: a lookup of an address that does not translate returns a surface of
\* width, height and depth 1 and leaves the registry, the L1 cache, the page
\* counts and every registration as they were.
C8_UnmappedLeavesCacheAlone ==
    [][(/\ last_call'.op \in LookupOps
        /\ last_call'.surface # 0
        /\ ToCacheAddr(GetPointer(last_call'.gpu_addr)) = 0)
       => /\ surfaces'[last_call'.surface].params.width = 1
          /\ surfaces'[last_call'.surface].params.height = 1
          /\ surfaces'[last_call'.surface].params.depth = 1
          /\ registry' = registry
          /\ l1_cache' = l1_cache
          /\ cached_pages' = cached_pages
          /\ \A q \in SurfaceIds : surfaces'[q].is_registered = surfaces[q].is_registered]_vars

\* An unmapped address has been looked up while the cache held a surface.
C8_Witness ==
    /\ last_call.op \in LookupOps
    /\ last_call.surface # 0
    /\ ToCacheAddr(GetPointer(last_call.gpu_addr)) = 0
    /\ HasEvent(log, "RegisterFailed")
    /\ surfaces[last_call.surface].params.width = 1
    /\ l1_cache # EmptyMap

\* C9: after InvalidateRegion the only registered surfaces that overlap the
\* invalidated range are protected ones under the render-target guard.
C9_RangeCleared ==
    last_call.op = "InvalidateRegion" =>
        \A q \in SurfaceIds :
            (/\ surfaces[q].is_registered
             /\ last_call.size > 0
             /\ Overlaps(surfaces[q], last_call.addr, last_call.addr + last_call.size))
            => (guard_render_targets /\ IsProtected(surfaces[q]))

\* An invalidation under the guard has unregistered one surface of the range
\* and left the protected one.
C9_Witness ==
    /\ last_call.op = "InvalidateRegion"
    /\ guard_render_targets
    /\ HasEvent(log, "Unregister")
    /\ \E q \in SurfaceIds :
          /\ surfaces[q].is_registered
          /\ IsProtected(surfaces[q])
          /\ Overlaps(surfaces[q], last_call.addr, last_call.addr + last_call.size)

\* C10: after FlushRegion no registered surface overlapping the range is
\* modified, and the call changes no registration, nor the registry, the L1
\* cache or the reserve.
C10_FlushCleansOnly ==
    [][last_call'.op = "FlushRegion" =>
        /\ \A q \in SurfaceIds :
              (/\ surfaces'[q].is_registered
               /\ last_call'.size > 0
               /\ Overlaps(surfaces'[q], last_call'.addr, last_call'.addr + last_call'.size))
              => ~surfaces'[q].is_modified
        /\ \A q \in SurfaceIds : surfaces'[q].is_registered = surfaces[q].is_registered
        /\ registry' = registry
        /\ l1_cache' = l1_cache
        /\ surface_reserve' = surface_reserve]_vars

\* FlushRegion has written a modified surface back.
C10_Witness ==
    /\ last_call.op = "FlushRegion"
    /\ HasEvent(log, "Flush")
    /\ \E q \in SurfaceIds :
          /\ surfaces[q].is_registered
          /\ ~surfaces[q].is_modified
          /\ Overlaps(surfaces[q], last_call.addr, last_call.addr + last_call.size)
          /\ \E i \in 1..Len(log) : log[i] = <<"Flush", q>>

\* Net page-count delta the events of log l report for surface s.
NetDelta(l, s) ==
    Cardinality({i \in 1..Len(l) : l[i] = <<"Register", s>>})
    - Cardinality({i \in 1..Len(l) : l[i] = <<"Unregister", s>>})

Ind(b) == IF b THEN 1 ELSE 0

\* Every half page is counted once for each registered surface that covers it.
PagesCounted ==
    \A hp \in 0..((CpuBase + (MaxAddr + 2) * HalfPage) \div HalfPage) :
        MapGet(cached_pages, hp, 0) =
            Cardinality({s \in SurfaceIds : /\ surfaces[s].is_registered
                                            /\ hp \in HalfPagesOf(surfaces[s])})

\* The registry without its empty buckets.
NonEmptyBuckets(r) == [page \in {q \in DOMAIN r : r[q] # <<>>} |-> r[page]]

\* Register, then Unregister with the guard off, applied to surface s of the
\* engine state c, gives back the registry, the L1 cache and the page counts.
RegisterUnregisterRestores(c, s) ==
    LET Undone(c2) ==
            /\ NonEmptyBuckets(c2.registry) = NonEmptyBuckets(c.registry)
            /\ c2.l1_cache = c.l1_cache
            /\ c2.cached_pages = c.cached_pages
    IN  Undone(Unregister(Register([c EXCEPT !.guard_render_targets = FALSE], s), s))

\* The surfaces Register can be called on: alive, unregistered, at an address
\* that translates, every registered surface in their range being one that
\* Unregister refuses (GetSurface unregisters the overlaps before it
\* registers).
Registrable(s) ==
    /\ surfaces[s].alive
    /\ ~surfaces[s].is_registered
    /\ Translates(surfaces[s].gpu_addr)
    /\ \A q \in SurfaceIds :
          (/\ surfaces[q].is_registered
           /\ Overlaps(surfaces[q], ToCacheAddr(GetPointer(surfaces[s].gpu_addr)),
                       ToCacheAddr(GetPointer(surfaces[s].gpu_addr)) + GetSizeInBytes(surfaces[s])))
          => (guard_render_targets /\ IsProtected(surfaces[q]))

\* The deltas a step reports for each surface add up to the change of its
\* registered flag, the running sum staying 0 or 1.
DeltasBalanced ==
    \A s \in SurfaceIds :
        /\ Ind(surfaces'[s].is_registered) = Ind(surfaces[s].is_registered) + NetDelta(log', s)
        /\ \A k \in 0..Len(log') :
              Ind(surfaces[s].is_registered) + NetDelta(SubSeq(log', 1, k), s) \in {0, 1}

RegisterIsUndone == \A s \in SurfaceIds : Registrable(s) => RegisterUnregisterRestores(Cur("none"), s)

\* C11: the page-count deltas reported for a surface sum to 1 while it is
\* registered and to 0 while it is not, never going below 0 (so every page
\* is counted once per registered surface covering it), and Register
\* followed by an unguarded Unregister of the same surface restores the
\* registry, the L1 cache and the page counts.
C11_PageCountBalanced ==
    /\ [](PagesCounted /\ RegisterIsUndone)
    /\ [][DeltasBalanced]_vars

\* The accounting half of C11 alone.
C11_DeltasOnly == [][DeltasBalanced /\ PagesCounted']_vars

\* Surface s carries a stamp handed out by Tick.
Stamped(s) == surfaces[s].alive /\ surfaces[s].modification_tick > 0

\* The step stamps surface s: it loads it, writes it back, or marks it in
\* use as the bound colour or depth buffer.
StampedByStep(s) ==
    \/ \E i \in 1..Len(log') : log'[i] \in {<<"Load", s>>, <<"Flush", s>>}
    \/ last_call'.op = "MarkColorBufferInUse" /\ render_targets[last_call'.index].target = s
    \/ last_call'.op = "MarkDepthBufferInUse" /\ depth_buffer.target = s

\* C12: the tick counter never decreases, every stamp a step puts on a
\* surface is greater than every tick handed out before the step, and no
\* two surfaces carry the same stamp.
C12_TicksStrictlyIncrease ==
    [][/\ ticks' >= ticks
       /\ \A s \in SurfaceIds :
             (/\ surfaces'[s].alive
              /\ \/ surfaces'[s].modification_tick # surfaces[s].modification_tick
                 \/ StampedByStep(s))
             => (/\ surfaces'[s].modification_tick > ticks
                 /\ surfaces'[s].modification_tick <= ticks')
       /\ \A s, q \in SurfaceIds :
             (s # q /\ Stamped(s)' /\ Stamped(q)')
             => surfaces'[s].modification_tick # surfaces'[q].modification_tick]_vars

\* A colour buffer has been stamped while another surface carries an older
\* stamp.
C12_Witness ==
    /\ last_call.op = "MarkColorBufferInUse"
    /\ \E s, q \in SurfaceIds :
          /\ Stamped(s) /\ Stamped(q)
          /\ render_targets[last_call.index].target = s
          /\ surfaces[s].modification_tick = ticks
          /\ surfaces[q].modification_tick < ticks

\* A thread is inside an entry point without owning the mutex.
Unlocked(t) == inside[t] # Idle /\ lock_owner # t

\* C13: every public entry point holds the engine-wide lock for its whole
\* duration: a thread that is inside an entry point owns the mutex, so no
\* thread is inside the engine while another is inside a locked operation.
C13_EntryPointsHoldLock ==
    \A t \in Threads : ~Unlocked(t)

\* The step is a colour (depth) target lookup made with the dirty flag clear.
CleanColorLookup ==
    last_call'.op = "GetColorBufferSurface" /\ ~dirty_flags.color_buffer[last_call'.index]

CleanDepthLookup ==
    last_call'.op = "GetDepthBufferSurface" /\ ~dirty_flags.zeta_buffer

\* The step leaves the engine as it was and raises no backend or
\* bookkeeping event (GetSurface would).
EngineUnchanged ==
    /\ UNCHANGED <<registry, l1_cache, surface_reserve, render_targets, depth_buffer,
                   sampled_textures, ticks, guard_render_targets, guard_samplers,
                   use_accurate_gpu_emulation, dirty_flags, cached_pages>>
    /\ \A s \in Referenced(Cur("none")) \ {0} : surfaces'[s] = surfaces[s]
    /\ log' = <<>>

\* C14: with the dirty flag clear GetColorBufferSurface(index) and
\* GetDepthBufferSurface return the view cached in the slot, run no lookup
\* and change no engine state.
C14_CleanLookupIsCached ==
    [][/\ CleanColorLookup =>
            /\ EngineUnchanged
            /\ last_call'.view = render_targets[last_call'.index].view
       /\ CleanDepthLookup =>
            /\ EngineUnchanged
            /\ last_call'.view = depth_buffer.view]_vars

\* A depth lookup answered from the slot while a colour target is bound.
C14_Witness ==
    /\ last_call.op = "GetDepthBufferSurface"
    /\ last_call.gpu_addr = 0
    /\ last_call.view # NullView
    /\ last_call.view = depth_buffer.view
    /\ render_targets[0].target # 0

\* The step is a colour (depth) target lookup made with the dirty flag set
\* and the target enabled.
DirtyColorLookup ==
    /\ last_call'.op = "GetColorBufferSurface"
    /\ dirty_flags.color_buffer[last_call'.index]
    /\ last_call'.gpu_addr # 0

DirtyDepthLookup ==
    /\ last_call'.op = "GetDepthBufferSurface"
    /\ dirty_flags.zeta_buffer
    /\ last_call'.gpu_addr # 0

\* The slot `new` holds what the lookup returned, that surface carries the
\* render-target mark and the surface of the slot `old`, when another one,
\* does not.
Retargeted(old, new) ==
    /\ new.target = last_call'.surface
    /\ new.view = last_call'.view
    /\ new.target # 0
    /\ surfaces'[new.target].alive
    /\ surfaces'[new.target].is_target
    /\ old.target \notin {0, new.target} => ~surfaces'[old.target].is_target

\* C15: a colour or depth target lookup made with the dirty flag set and the
\* target enabled binds the slot to the surface and view the lookup produced,
\* marks that surface as a render target, unmarks the surface bound before
\* when it is another one, and clears the dirty flag.
C15_DirtyLookupRebinds ==
    [][/\ DirtyColorLookup =>
            /\ Retargeted(render_targets[last_call'.index], render_targets'[last_call'.index])
            /\ ~dirty_flags'.color_buffer[last_call'.index]
       /\ DirtyDepthLookup =>
            /\ Retargeted(depth_buffer, depth_buffer')
            /\ ~dirty_flags'.zeta_buffer]_vars

\* The colour slot rebound to a second surface: the lookup's surface is bound
\* and marked, the colour surface at the other address is alive and unmarked.
C15_Witness ==
    /\ last_call.op = "GetColorBufferSurface"
    /\ last_call.gpu_addr # 0
    /\ last_call.surface # 0
    /\ render_targets[0].target = last_call.surface
    /\ surfaces[last_call.surface].is_target
    /\ ~dirty_flags.color_buffer[0]
    /\ \E s \in SurfaceIds \ {last_call.surface} :
          /\ surfaces[s].alive
          /\ surfaces[s].params = last_call.params
          /\ ~surfaces[s].is_target

\* The surface `target` is drawn into: it becomes modified under a stamp
\* above every other surface's, and nothing else changes but the tick counter.
DrawnInto(target) ==
    /\ surfaces'[target] = [surfaces[target] EXCEPT !.is_modified = TRUE,
                                                    !.modification_tick = ticks']
    /\ ticks' > ticks
    /\ \A s \in SurfaceIds \ {target} :
          /\ surfaces[s].alive => surfaces'[target].modification_tick > surfaces[s].modification_tick
          /\ s \in Referenced(Cur("none")) => surfaces'[s] = surfaces[s]
    /\ UNCHANGED <<registry, l1_cache, surface_reserve, render_targets, depth_buffer,
                   sampled_textures, guard_render_targets, guard_samplers,
                   use_accurate_gpu_emulation, dirty_flags, cached_pages>>
    /\ log' = <<>>

\* C16: MarkColorBufferInUse(index) and MarkDepthBufferInUse mark the surface
\* bound to the slot as modified and stamp it with a tick newer than every
\* other surface's modification tick; they change no other surface and they
\* do nothing when the slot is empty.
C16_MarkInUseStamps ==
    [][/\ last_call'.op = "MarkColorBufferInUse" =>
            IF render_targets[last_call'.index].target # 0
            THEN DrawnInto(render_targets[last_call'.index].target)
            ELSE EngineUnchanged
       /\ last_call'.op = "MarkDepthBufferInUse" =>
            IF depth_buffer.target # 0
            THEN DrawnInto(depth_buffer.target)
            ELSE EngineUnchanged]_vars

\* The depth target drawn into after the colour target.
C16_Witness ==
    /\ last_call.op = "MarkDepthBufferInUse"
    /\ depth_buffer.target # 0
    /\ surfaces[depth_buffer.target].is_modified
    /\ surfaces[depth_buffer.target].modification_tick = ticks
    /\ render_targets[0].target \notin {0, depth_buffer.target}
    /\ surfaces[render_targets[0].target].is_modified
    /\ surfaces[render_targets[0].target].modification_tick < ticks

\* The formats that index the table, and those of a declared pair.
TableFormats == PixelFormats \ {"Invalid"}
InDeclaredPair(f) == \E p \in DeclaredSiblings : f \in {p[1], p[2]}

\* C17 as stated: at every moment after construction the sibling table is
\* total and symmetric, and a format of no declared pair is its own sibling.
C17_SiblingsIdentity ==
    [](\A a \in TableFormats :
          /\ GetSiblingFormat(a) \in PixelFormats
          /\ \A b \in TableFormats : GetSiblingFormat(a) = b => GetSiblingFormat(b) = a
          /\ ~InDeclaredPair(a) => GetSiblingFormat(a) = a)

\* C17: at every moment after construction the sibling table is total; it
\* maps each format of a declared pair to its partner, symmetrically; a
\* format of no declared pair maps to Invalid.
C17_SiblingsInvalid ==
    [](\A a \in TableFormats :
          /\ GetSiblingFormat(a) \in PixelFormats
          /\ \A b \in TableFormats : GetSiblingFormat(a) = b => GetSiblingFormat(b) = a
          /\ \A p \in DeclaredSiblings :
                GetSiblingFormat(p[1]) = p[2] /\ GetSiblingFormat(p[2]) = p[1]
          /\ ~InDeclaredPair(a) => GetSiblingFormat(a) = "Invalid")

\* A texture lookup answered with a surface of the sibling format.
C17_Witness ==
    /\ last_call.op = "GetTextureSurface"
    /\ last_call.surface # 0
    /\ InDeclaredPair(last_call.params.pixel_format)
    /\ surfaces[last_call.surface].params.pixel_format
          = GetSiblingFormat(last_call.params.pixel_format)

\* The registered surfaces overlapping [addr, addr + size).
RegisteredOverlapping(addr, size) ==
    {s \in SurfaceIds : /\ surfaces[s].alive
                        /\ surfaces[s].is_registered
                        /\ Overlaps(surfaces[s], addr, addr + size)}

\* C18: in every state and for every region, GetSurfacesInRegion returns
\* each registered surface overlapping the region exactly once, also when
\* the surface lies in several page buckets; it returns the empty list for
\* size 0; and it leaves no surface picked.
C18_RegionScanExact ==
    \A addr \in RegionAddrs, size \in RegionSizes :
        LET Exact(r) ==
                /\ size = 0 => r.surfaces = <<>>
                /\ size > 0 => /\ SeqRange(r.surfaces) = RegisteredOverlapping(addr, size)
                               /\ Len(r.surfaces) = Cardinality(RegisteredOverlapping(addr, size))
                /\ \A s \in SurfaceIds : ~r.c.surf[s].is_picked
                /\ r.c = Cur("none")
        IN  Exact(GetSurfacesInRegion(Cur("none"), addr, size))

\* An invalidation of three half pages has unregistered, once, a surface
\* lying in two page buckets.
C18_Witness ==
    /\ last_call.op = "InvalidateRegion"
    /\ last_call.size = 3 * HalfPage
    /\ \E s \in SurfaceIds :
          /\ surfaces[s].alive
          /\ surfaces[s].cache_addr \div registry_page_size
                < (surfaces[s].cache_addr_end - 1) \div registry_page_size
          /\ Cardinality({i \in 1..Len(log) : log[i] = <<"Unregister", s>>}) = 1

\* The results of a topology comparison, and the lists of one or two live
\* surfaces a lookup can hand to the recycler.
TopologyResults == {"FullMatch", "CompressUnmatch", "None"}

OverlapLists ==
    {<<s>> : s \in {q \in SurfaceIds : surfaces[q].alive}}
    \cup {<<s, q>> : s, q \in {x \in SurfaceIds : surfaces[x].alive}}

\* The result a call site of RecycleSurface passes along: the first failed
\* comparison of an overlap, or FullMatch after every overlap has passed.
Passable(overlaps, params, untopological) ==
    IF \A i \in 1..Len(overlaps) : MatchesTopology(surfaces[overlaps[i]], params) = "FullMatch"
    THEN untopological = "FullMatch"
    ELSE /\ untopological # "FullMatch"
         /\ \E i \in 1..Len(overlaps) :
               MatchesTopology(surfaces[overlaps[i]], params) = untopological

AnyIs3D(overlaps, params) ==
    Is3D(params) \/ \E i \in 1..Len(overlaps) : Is3D(surfaces[overlaps[i]].params)

\* The decision table as stated: row (d) asks for tiled overlaps.
StatedStrategy(overlaps, params, untopological) ==
    IF use_accurate_gpu_emulation THEN "Flush"
    ELSE IF AnyIs3D(overlaps, params) THEN "Flush"
    ELSE IF untopological = "CompressUnmatch" THEN "Flush"
    ELSE IF /\ untopological = "FullMatch"
            /\ ~params.is_tiled
            /\ \A i \in 1..Len(overlaps) : surfaces[overlaps[i]].params.is_tiled
    THEN "Flush"
    ELSE "Ignore"

\* The decision table with row (d) on the candidate alone.
TableStrategy(overlaps, params, untopological) ==
    IF use_accurate_gpu_emulation THEN "Flush"
    ELSE IF AnyIs3D(overlaps, params) THEN "Flush"
    ELSE IF untopological = "CompressUnmatch" THEN "Flush"
    ELSE IF untopological = "FullMatch" /\ ~params.is_tiled THEN "Flush"
    ELSE "Ignore"

\* C19 as stated: on every argument list a lookup can pass, PickStrategy is
\* Flush under strict accuracy; else Flush for a 3D candidate or overlap; else
\* Flush on the hard format incompatibility; else Flush when the topology
\* fully matched and the candidate is untiled while the overlaps are tiled;
\* otherwise Ignore; never BufferCopy.
C19_StrategyAsStated ==
    \A overlaps \in OverlapLists, params \in RecycleParams, untopological \in TopologyResults :
        Passable(overlaps, params, untopological) =>
            PickStrategy(Cur("none"), overlaps, params, GpuBase, untopological)
                = StatedStrategy(overlaps, params, untopological)

\* C19: on every argument list PickStrategy is Flush under strict accuracy;
\* else Flush for a 3D candidate or overlap; else Flush on the hard format
\* incompatibility; else Flush when the topology fully matched and the
\* candidate is untiled, whatever the tiling of the overlaps; otherwise
\* Ignore; never BufferCopy.
C19_StrategyTable ==
    \A overlaps \in OverlapLists, params \in RecycleParams, untopological \in TopologyResults :
        /\ PickStrategy(Cur("none"), overlaps, params, GpuBase, untopological)
              = TableStrategy(overlaps, params, untopological)
        /\ PickStrategy(Cur("none"), overlaps, params, GpuBase, untopological) # "BufferCopy"

\* With accuracy off, a linear texture has recycled a linear overlap of the
\* same topology and has been loaded: the strategy was Flush.
C19_Witness ==
    /\ ~use_accurate_gpu_emulation
    /\ last_call.op = "GetTextureSurface"
    /\ ~last_call.params.is_tiled
    /\ last_call.surface # 0
    /\ \E s \in SurfaceIds :
          /\ surfaces[s].alive
          /\ ~surfaces[s].params.is_tiled
          /\ MatchesTopology(surfaces[s], last_call.params) = "FullMatch"
          /\ \E i \in 1..Len(log) : log[i] = <<"Unregister", s>>
    /\ \E i \in 1..Len(log) : log[i] = <<"Load", last_call.surface>>

\* The surfaces the step unregistered, as a list.
RECURSIVE UnregisteredBy(_, _)
UnregisteredBy(l, i) ==
    IF i > Len(l) THEN <<>>
    ELSE IF l[i][1] = "Unregister" THEN <<l[i][2]>> \o UnregisteredBy(l, i + 1)
    ELSE UnregisteredBy(l, i + 1)

\* The step is a lookup that went through RecycleSurface (the overlaps are
\* unregistered before anything is allocated) and PickStrategy answered
\* Ignore, whichever topology result the lookup passed along.
IgnoreRecycle ==
    /\ last_call'.op \in {"GetTextureSurface", "GetColorBufferSurface", "GetDepthBufferSurface"}
    /\ last_call'.surface # 0
    /\ log' # <<>>
    /\ log'[1][1] = "Unregister"
    /\ \A untopological \in TopologyResults :
          Passable(UnregisteredBy(log', 1), last_call'.params, untopological) =>
              PickStrategy(Cur("none"), UnregisteredBy(log', 1), last_call'.params,
                           last_call'.gpu_addr, untopological) = "Ignore"

\* C20: a lookup that recycles under the Ignore strategy loads the fresh
\* surface from guest memory before returning it when preserve_contents is
\* true, and does not load it when preserve_contents is false.
C20_IgnoreLoadsIfPreserved ==
    [][IgnoreRecycle =>
          ((\E i \in 1..Len(log') : log'[i] = <<"Load", last_call'.surface>>)
              <=> last_call'.preserve_contents)]_vars

\* The half of C20 on preserve_contents = false.
C20_IgnoreBlankIfNotPreserved ==
    [][IgnoreRecycle /\ ~last_call'.preserve_contents =>
          ~\E i \in 1..Len(log') : log'[i][1] = "Load"]_vars

\* A colour target recycled under Ignore without its contents.
C20_BlankWitness ==
    /\ ~use_accurate_gpu_emulation
    /\ last_call.op = "GetColorBufferSurface"
    /\ ~last_call.preserve_contents
    /\ last_call.surface # 0
    /\ log # <<>>
    /\ log[1][1] = "Unregister"
    /\ ~\E i \in 1..Len(log) : log[i][1] = "Load"

\* ------------------------------------------------------------------------
\* C21..C30: recycling, rebuilding and reconstruction
\* ------------------------------------------------------------------------
LookupEntryPoints == {"GetTextureSurface", "GetColorBufferSurface", "GetDepthBufferSurface"}

Kinds(l) == [i \in 1..Len(l) |-> l[i][1]]

FirstOf(l, kind) == CHOOSE i \in 1..Len(l) : l[i][1] = kind /\ \A j \in 1..(i - 1) : l[j][1] # kind

\* The events of the step from its first Unregister on.
FromUnregister(l) == SubSeq(l, FirstOf(l, "Unregister"), Len(l))

\* The step is a lookup that went through RecycleSurface: it allocated after
\* it had unregistered.
Recycled ==
    /\ last_call'.op \in LookupEntryPoints
    /\ last_call'.surface # 0
    /\ \E i, j \in 1..Len(log') :
          i < j /\ log'[i][1] = "Unregister" /\ log'[j][1] \in {"Create", "Reuse"}

\* PickStrategy answered Flush, whichever topology result the lookup passed.
FlushRecycle ==
    /\ Recycled
    /\ \A untopological \in TopologyResults :
          Passable(UnregisteredBy(log', 1), last_call'.params, untopological) =>
              PickStrategy(Cur("none"), UnregisteredBy(log', 1), last_call'.params,
                           last_call'.gpu_addr, untopological) = "Flush"

\* The shape of a recycle: the overlaps' Unregister events, then the Flush
\* events, then the allocation, the registration and at most one load, all
\* three of the surface returned.
RecycleShape(l, new) ==
    \E u, f \in 0..Len(l) :
        /\ u >= 1
        /\ u + f + 2 <= Len(l)
        /\ Len(l) <= u + f + 3
        /\ \A i \in 1..u : l[i][1] = "Unregister"
        /\ \A i \in (u + 1)..(u + f) : l[i][1] = "Flush"
        /\ l[u + f + 1][1] \in {"Create", "Reuse"} /\ l[u + f + 1][2] = new
        /\ l[u + f + 2] = <<"Register", new>>
        /\ Len(l) = u + f + 3 => l[u + f + 3] = <<"Load", new>>

\* C21: a lookup that recycles unregisters every overlap first; under the
\* Flush strategy it then writes back exactly the overlaps that were
\* modified, in ascending order of their modification ticks, and only after
\* the last write-back allocates, registers and, if and only if
\* preserve_contents is set, loads the surface it returns.
C21_RecycleFlushOrder ==
    [][(Recycled => RecycleShape(FromUnregister(log'), last_call'.surface))
       /\ (FlushRecycle =>
              LET f == Flushed(log')
              IN  /\ \A i, j \in 1..Len(f) :
                        i < j => /\ f[i][2] # f[j][2]
                                 /\ surfaces[f[i][2]].modification_tick
                                       <= surfaces[f[j][2]].modification_tick
                  /\ {f[i][2] : i \in 1..Len(f)}
                        = {s \in SeqRange(UnregisteredBy(log', 1)) : surfaces[s].is_modified}
                  /\ (\E i \in 1..Len(log') : log'[i] = <<"Load", last_call'.surface>>)
                        <=> last_call'.preserve_contents)]_vars

\* A texture lookup has recycled a modified overlap under Flush: the overlap
\* was unregistered, then written back, and the new surface was loaded after.
C21_Witness ==
    /\ last_call.op = "GetTextureSurface"
    /\ last_call.surface # 0
    /\ \E s \in SurfaceIds, i, j, k \in 1..Len(log) :
          /\ i < j /\ j < k
          /\ log[i] = <<"Unregister", s>>
          /\ log[j] = <<"Flush", s>>
          /\ log[k] = <<"Load", last_call.surface>>

\* The candidates RebuildSurface is probed with.
RebuildParams == {PD, PZ, PR, PA}

RegisteredIds == {s \in SurfaceIds : surfaces[s].alive /\ surfaces[s].is_registered}

InReserve(c, s) ==
    \E i \in 1..Len(MapGet(c.surface_reserve, c.surf[s].params, <<>>)) :
        c.surface_reserve[c.surf[s].params][i] = s

\* The state RebuildSurface(old, ...) leaves behind, against the state it
\* was called in.
RebuiltFrom(r, old) ==
    r.c.ok =>
        /\ r.s # old
        /\ ~r.c.surf[old].is_registered
        /\ r.c.surf[old].params = surfaces[old].params
        /\ InReserve(r.c, old)
        /\ r.c.surf[r.s].is_registered
        /\ r.c.surf[r.s].gpu_addr = surfaces[old].gpu_addr
        /\ MapGet(r.c.l1_cache, surfaces[old].cache_addr, 0) = r.s
        /\ r.c.surf[r.s].is_modified = surfaces[old].is_modified
        /\ r.c.surf[r.s].modification_tick = ticks + 1
        /\ \A q \in SurfaceIds : surfaces[q].modification_tick < r.c.surf[r.s].modification_tick

\* C22: with the render-target guard off, RebuildSurface of a registered
\* surface leaves it unregistered and in the reserve under its params,
\* registers the new surface at its GPU address and gives the new surface
\* the modified flag the old one had at entry, with a fresh tick.
C22_RebuildKeepsModified ==
    ~guard_render_targets =>
        \A old \in RegisteredIds, params \in RebuildParams, is_render \in BOOLEAN :
            RebuiltFrom(RebuildSurface(Cur("none"), old, params, is_render), old)

\* A texture lookup has rebuilt a modified surface: the new surface took the
\* place of the old one, which waits in the reserve, and is modified with the
\* newest tick.
C22_Witness ==
    /\ last_call.op = "GetTextureSurface"
    /\ ~guard_render_targets
    /\ \E old \in SurfaceIds :
          /\ old # last_call.surface
          /\ surfaces[old].is_modified
          /\ Len(log) = 4
          /\ log[1][1] = "Create" /\ log[1][2] = last_call.surface
          /\ log[2][1] \in {"ImageCopy", "BufferCopy"} /\ log[2][2] = old
          /\ log[3] = <<"Unregister", old>>
          /\ log[4] = <<"Register", last_call.surface>>
    /\ surfaces[last_call.surface].is_modified
    /\ surfaces[last_call.surface].modification_tick = ticks

AreDeclaredSiblings(f, g) == <<f, g>> \in DeclaredSiblings \/ <<g, f>> \in DeclaredSiblings

\* The params the new surface is allocated with when the format of the old
\* one is kept.
WithFormatOf(params, old) ==
    [params EXCEPT !.pixel_format = surfaces[old].params.pixel_format,
                   !.component_type = surfaces[old].params.component_type,
                   !.type = surfaces[old].params.type]

\* C23 as stated: RebuildSurface allocates the new surface with the pixel
\* format of the old one whenever the requested format differs from it and
\* the two are declared siblings, and with exactly the requested params in
\* every other case.
C23_SiblingFormatKept ==
    \A old \in RegisteredIds, params \in RebuildParams, is_render \in BOOLEAN :
        LET Allocated(r) ==
                r.c.ok =>
                    IF /\ surfaces[old].params.pixel_format # params.pixel_format
                       /\ AreDeclaredSiblings(surfaces[old].params.pixel_format, params.pixel_format)
                    THEN r.c.surf[r.s].params.pixel_format = surfaces[old].params.pixel_format
                    ELSE r.c.surf[r.s].params = params
        IN  Allocated(RebuildSurface(Cur("none"), old, params, is_render))

\* C23: RebuildSurface allocates the new surface with the pixel format (and
\* the component type and type) of the old one whenever the requested format
\* differs from it, the two are declared siblings and the request is not for
\* a render target, and with exactly the requested params in every other
\* case.
C23_SiblingFormatKeptUnlessRender ==
    \A old \in RegisteredIds, params \in RebuildParams, is_render \in BOOLEAN :
        LET Allocated(r) ==
                r.c.ok =>
                    IF /\ surfaces[old].params.pixel_format # params.pixel_format
                       /\ AreDeclaredSiblings(surfaces[old].params.pixel_format, params.pixel_format)
                       /\ ~is_render
                    THEN r.c.surf[r.s].params = WithFormatOf(params, old)
                    ELSE r.c.surf[r.s].params = params
        IN  Allocated(RebuildSurface(Cur("none"), old, params, is_render))

\* A texture lookup in R32F has rebuilt a Z32F surface of another width: the
\* surface it returns is of the requested width and of the old format.
C23_Witness ==
    /\ last_call.op = "GetTextureSurface"
    /\ last_call.params.pixel_format = "R32F"
    /\ surfaces[last_call.surface].params.pixel_format = "Z32F"
    /\ surfaces[last_call.surface].params.width = last_call.params.width
    /\ surfaces[last_call.surface].is_registered
    /\ \E old \in SurfaceIds :
          /\ old # last_call.surface
          /\ surfaces[old].params.pixel_format = "Z32F"
          /\ surfaces[old].params.width # last_call.params.width
          /\ \E i, j \in 1..Len(log) :
                /\ i < j
                /\ log[i][1] = "Create" /\ log[i][2] = last_call.surface
                /\ log[j] = <<"Unregister", old>>

\* The candidates ManageStructuralMatch is probed with: those of
\* RebuildSurface, as 2D textures and as arrays.
ManageParams == RebuildParams \cup {[p EXCEPT !.target = "Texture2DArray"] : p \in RebuildParams}

DispatchParams ==
    {PZ, PR, PD, PL, PZM, [PZ EXCEPT !.target = "Texture3D"], [PD EXCEPT !.target = "Texture3D"]}

\* The dispatch on an L1 hit as stated (target3d FALSE) and with the test of
\* line 573 (target3d TRUE): a 3D candidate over a surface of another
\* target goes to the overlap scan whatever the structure result.
DispatchOf(c, gpu_addr, params, preserve_contents, is_render, target3d) ==
    LET cache_addr == ToCacheAddr(GetPointer(gpu_addr))
        current_surface == c.l1_cache[cache_addr]
        topological_result == MatchesTopology(c.surf[current_surface], params)
        struct_result == MatchesStructure(c.surf[current_surface], params)
    IN  IF topological_result # "FullMatch"
        THEN RecycleSurface(c, <<current_surface>>, params, gpu_addr, preserve_contents,
                            topological_result)
        ELSE IF /\ target3d
                /\ params.target = "Texture3D"
                /\ c.surf[current_surface].params.target # "Texture3D"
        THEN GetSurfaceOverlaps(c, gpu_addr, cache_addr, params, preserve_contents, is_render)
        ELSE IF struct_result = "FullMatch"
        THEN ManageStructuralMatch(c, current_surface, params, is_render)
        ELSE IF struct_result = "SemiMatch"
        THEN RebuildSurface(c, current_surface, params, is_render)
        ELSE GetSurfaceOverlaps(c, gpu_addr, cache_addr, params, preserve_contents, is_render)

L1Hit(gpu_addr) == ToCacheAddr(GetPointer(gpu_addr)) \in DOMAIN l1_cache

\* C25 as stated: on an L1 hit GetSurface recycles the hit surface on any
\* topology result other than FullMatch; otherwise it answers a FullMatch
\* structure result with ManageStructuralMatch, a partial one with
\* RebuildSurface, and goes on to the overlap scan on None.
C25_L1Dispatch ==
    \A params \in DispatchParams, preserve_contents, is_render \in BOOLEAN :
        L1Hit(GpuBase) =>
            GetSurface(Cur("none"), GpuBase, params, preserve_contents, is_render)
                = DispatchOf(Cur("none"), GpuBase, params, preserve_contents, is_render, FALSE)

\* C25: on an L1 hit GetSurface recycles the hit surface on any topology
\* result other than FullMatch; otherwise, unless the candidate is a 3D
\* texture and the hit surface is of another target, it answers a FullMatch
\* structure result with ManageStructuralMatch and a partial one with
\* RebuildSurface; on a None structure result, and for a 3D candidate over a
\* surface of another target, it goes on to the overlap scan.
C25_L1DispatchTarget3D ==
    \A params \in DispatchParams, preserve_contents, is_render \in BOOLEAN :
        L1Hit(GpuBase) =>
            GetSurface(Cur("none"), GpuBase, params, preserve_contents, is_render)
                = DispatchOf(Cur("none"), GpuBase, params, preserve_contents, is_render, TRUE)

\* A texture lookup of one page has hit a half-page surface of the same
\* topology in the L1 cache and got it rebuilt (the partial structure match).
C25_Witness ==
    /\ last_call.op = "GetTextureSurface"
    /\ last_call.surface # 0
    /\ \E old \in SurfaceIds :
          /\ old # last_call.surface
          /\ surfaces[old].alive
          /\ surfaces[old].gpu_addr = last_call.gpu_addr
          /\ MatchesTopology(surfaces[old], last_call.params) = "FullMatch"
          /\ MatchesStructure(surfaces[old], last_call.params) = "SemiMatch"
          /\ Len(log) = 4
          /\ log[2][1] \in {"ImageCopy", "BufferCopy"} /\ log[2][2] = old
          /\ log[3] = <<"Unregister", old>>
          /\ log[4] = <<"Register", last_call.surface>>

\* The registered surfaces the scan of the step's lookup finds.
ScanOverlaps ==
    RegisteredOverlapping(ToCacheAddr(GetPointer(last_call'.gpu_addr)),
                          GetGuestSizeInBytes(last_call'.params))

\* The step is a lookup, with the guard off, that gets past the L1 cache (no
\* hit, or a hit step 1 passes on) and whose scan finds an overlap of
\* another topology.
ScanMeetsOtherTopology ==
    /\ last_call'.op \in LookupEntryPoints
    /\ ~guard_render_targets
    /\ IsMapped(last_call'.gpu_addr)
    /\ \/ ~L1Hit(last_call'.gpu_addr)
       \/ LET sf == surfaces[l1_cache[ToCacheAddr(GetPointer(last_call'.gpu_addr))]]
          IN  /\ MatchesTopology(sf, last_call'.params) = "FullMatch"
              /\ \/ MatchesStructure(sf, last_call'.params) = "None"
                 \/ /\ last_call'.params.target = "Texture3D"
                    /\ ~MatchTarget(sf, "Texture3D")
    /\ \E s \in ScanOverlaps : MatchesTopology(surfaces[s], last_call'.params) # "FullMatch"

RegisteredIn(surf, gpu_addr) ==
    {s \in SurfaceIds : surf[s].alive /\ surf[s].is_registered /\ surf[s].gpu_addr = gpu_addr}

\* C26 as stated: when the overlap scan of a lookup finds a registered
\* surface that fails the topological comparison, then, with the guard off,
\* on return none of the overlaps found is registered and exactly one
\* surface, a new one, is registered at gpu_addr.
C26_ScanRecyclesAll ==
    [][ScanMeetsOtherTopology =>
          /\ \A s \in ScanOverlaps : ~surfaces'[s].is_registered
          /\ RegisteredIn(surfaces', last_call'.gpu_addr) = {last_call'.surface}
          /\ last_call'.surface \notin ScanOverlaps]_vars

\* C26: when the overlap scan of a lookup finds a registered surface that
\* fails the topological comparison, then, with the guard off, every overlap
\* found is unregistered and on return none of them is registered except the
\* one, if any, that was taken back from the reserve as the surface
\* returned; exactly one surface, the one returned, is registered at
\* gpu_addr.
C26_ScanRecyclesAllOrReuses ==
    [][ScanMeetsOtherTopology =>
          /\ \A s \in ScanOverlaps :
                /\ \E i \in 1..Len(log') : log'[i] = <<"Unregister", s>>
                /\ s # last_call'.surface => ~surfaces'[s].is_registered
                /\ s = last_call'.surface =>
                      \E i \in 1..Len(log') : log'[i][1] = "Reuse" /\ log'[i][2] = s
          /\ RegisteredIn(surfaces', last_call'.gpu_addr) = {last_call'.surface}]_vars

\* A lookup has recycled two overlaps, one of them of another topology, and
\* the surface it returns is registered at the requested address.
C26_Witness ==
    /\ last_call.op = "GetTextureSurface"
    /\ ~guard_render_targets
    /\ Len(UnregisteredBy(log, 1)) = 2
    /\ \E i \in 1..2 :
          MatchesTopology(surfaces[UnregisteredBy(log, 1)[i]], last_call.params) # "FullMatch"
    /\ \E i \in 1..2 :
          /\ UnregisteredBy(log, 1)[i] # last_call.surface
          /\ MatchesTopology(surfaces[UnregisteredBy(log, 1)[i]], last_call.params) = "FullMatch"
    /\ RegisteredIn(surfaces, last_call.gpu_addr) = {last_call.surface}

\* The candidates TryReconstructSurface is probed with at the start of the
\* block: the mip chain of a half-page base, as a 2D and as a 3D texture, and
\* a page.
ReconstructParams == {PHM, [PHM EXCEPT !.target = "Texture3D"], PA}

\* The lists of one and of two distinct registered surfaces.
RegisteredLists ==
    {<<s>> : s \in RegisteredIds}
    \cup {<<p[1], p[2]>> : p \in {q \in RegisteredIds \X RegisteredIds : q[1] # q[2]}}

\* The surface starts at a (layer, mip) slot of a surface of the given
\* params at gpu_addr and has exactly the byte size of that mip level.
MatchesSlot(s, params, gpu_addr) ==
    LET Sized(slot) ==
            /\ slot # <<>>
            /\ GetMipmapSize(params, slot[2]) = GetSizeInBytes(surfaces[s])
    IN  Sized(GetLayerMipmap([NullSurface EXCEPT !.params = params, !.gpu_addr = gpu_addr],
                             surfaces[s].gpu_addr))

Donors(overlaps, params, gpu_addr) ==
    {i \in 1..Len(overlaps) : MatchesSlot(overlaps[i], params, gpu_addr)}

\* C27: TryReconstructSurface returns nothing when the target is 3D, when an
\* overlap is layered or has more than one mip level, when no overlap starts
\* at a (layer, mip) slot of the candidate of exactly its byte size, and,
\* under strict accuracy, when not every overlap does; whenever it returns
\* nothing, no overlap was unregistered and no surface registered: the
\* registry, the L1 cache, the page counts and every registration are as
\* they were.
C27_ReconstructFailsCleanly ==
    \A overlaps \in RegisteredLists, params \in ReconstructParams :
        LET Failed(r) ==
                r.c.ok =>
                    /\ (\/ params.target = "Texture3D"
                        \/ \E i \in 1..Len(overlaps) :
                              \/ surfaces[overlaps[i]].params.is_layered
                              \/ surfaces[overlaps[i]].params.num_levels > 1
                        \/ Donors(overlaps, params, GpuBase) = {}
                        \/ /\ use_accurate_gpu_emulation
                           /\ Cardinality(Donors(overlaps, params, GpuBase)) < Len(overlaps))
                          => ~r.found
                    /\ ~r.found =>
                          /\ r.c.registry = registry
                          /\ r.c.l1_cache = l1_cache
                          /\ r.c.cached_pages = cached_pages
                          /\ \A s \in SurfaceIds :
                                r.c.surf[s].is_registered = surfaces[s].is_registered
                          /\ \A i \in 1..Len(r.c.log) :
                                r.c.log[i][1] \notin {"Unregister", "Register", "RegisterFailed"}
        IN  Failed(TryReconstructSurface(Cur("none"), overlaps, params, GpuBase))

\* Under strict accuracy a lookup has tried to reconstruct a mip chain from
\* two overlaps of which only one fits a level: the copy of the fitting one
\* comes before any Unregister, and the overlaps were then recycled into a
\* surface allocated anew.
C27_Witness ==
    /\ use_accurate_gpu_emulation
    /\ last_call.op \in LookupEntryPoints
    /\ last_call.params.num_levels = 2
    /\ Len(UnregisteredBy(log, 1)) = 2
    /\ Len(log) >= 5
    /\ log[1][1] \in {"Create", "Reuse"}
    /\ log[2][1] = "ImageCopy" /\ log[2][3] = log[1][2]
    /\ log[3][1] = "Unregister"
    /\ \E i \in 5..Len(log) : log[i][1] \in {"Create", "Reuse"} /\ log[i][2] = last_call.surface

\* The ImageCopy events of a log.
ImageCopies(l) == {i \in 1..Len(l) : l[i][1] = "ImageCopy"}

\* What a successful TryReconstructSurface leaves, but for the modified flag
\* of the new surface: with the guard off every overlap is unregistered, the
\* new surface is registered at gpu_addr with the requested params, and the
\* copies issued are exactly one per donor, each into the new surface.
Reconstructed(r, overlaps, params, gpu_addr) ==
    /\ \A i \in 1..Len(overlaps) : ~r.c.surf[overlaps[i]].is_registered
    /\ r.s \notin SeqRange(overlaps)
    /\ r.c.surf[r.s].is_registered
    /\ r.c.surf[r.s].gpu_addr = gpu_addr
    /\ r.c.surf[r.s].params = params
    /\ MapGet(r.c.l1_cache, r.c.surf[r.s].cache_addr, 0) = r.s
    /\ Cardinality(ImageCopies(r.c.log)) = Cardinality(Donors(overlaps, params, gpu_addr))
    /\ \A d \in Donors(overlaps, params, gpu_addr) :
          Cardinality({i \in ImageCopies(r.c.log) :
                          r.c.log[i][2] = overlaps[d] /\ r.c.log[i][3] = r.s}) = 1

ReachesScan(gpu_addr, params) ==
    LET Through(sf) ==
            /\ MatchesTopology(sf, params) = "FullMatch"
            /\ \/ MatchesStructure(sf, params) = "None"
               \/ params.target = "Texture3D" /\ ~MatchTarget(sf, params.target)
    IN  L1Hit(gpu_addr) => Through(surfaces[l1_cache[ToCacheAddr(GetPointer(gpu_addr))]])

\* The scan finds one overlap, of the candidate's topology, that holds the
\* candidate's range and yields no view of it.
HeldWithoutView(scan, gpu_addr, params) ==
    /\ Len(scan.surfaces) = 1
    /\ MatchesTopology(surfaces[scan.surfaces[1]], params) = "FullMatch"
    /\ IsInside(surfaces[scan.surfaces[1]], gpu_addr, gpu_addr + GetGuestSizeInBytes(params))
    /\ EmplaceView(scan.c, scan.surfaces[1], params, gpu_addr, GetGuestSizeInBytes(params))
          = NullView

\* C29: under strict accuracy, when the scan finds a single overlap that
\* holds the candidate's range and no view can be made of it, GetSurface
\* rebuilds nothing: it unregisters the overlap, writes it back if it is
\* modified, and only then allocates, registers and, when contents are to be
\* preserved, loads the new surface.
C29_AccurateRecyclesInside ==
    (use_accurate_gpu_emulation /\ ~guard_render_targets) =>
        \A l \in InsideLookups, preserve_contents, is_render \in BOOLEAN :
            LET Recycles(scan, r) ==
                    (r.c.ok /\ ReachesScan(l[1], l[2]) /\ HeldWithoutView(scan, l[1], l[2])) =>
                        /\ ~HasEvent(r.c.log, "ImageCopy")
                        /\ ~HasEvent(r.c.log, "BufferCopy")
                        /\ Kinds(r.c.log)
                              = <<"Unregister">>
                                \o (IF surfaces[scan.surfaces[1]].is_modified
                                    THEN <<"Flush">> ELSE <<>>)
                                \o <<r.c.log[Len(r.c.log) - (IF preserve_contents THEN 2 ELSE 1)][1],
                                     "Register">>
                                \o (IF preserve_contents THEN <<"Load">> ELSE <<>>)
                        /\ RecycleShape(r.c.log, r.s)
                        /\ \A i \in 1..Len(r.c.log) :
                              r.c.log[i][1] \in {"Unregister", "Flush"}
                                  => r.c.log[i][2] = scan.surfaces[1]
                        /\ r.c.surf[r.s].is_registered
                        /\ r.c.surf[r.s].params = l[2]
            IN  Recycles(GetSurfacesInRegion(Cur("none"),
                                             ToCacheAddr(GetPointer(l[1])), GetGuestSizeInBytes(l[2])),
                         GetSurface(Cur("none"), l[1], l[2], preserve_contents, is_render))

\* Under strict accuracy a texture was looked up inside a modified colour
\* target of another depth: the target was unregistered and written back,
\* and the new surface allocated, registered and loaded.
C29_Witness ==
    /\ use_accurate_gpu_emulation
    /\ last_call.op = "GetTextureSurface"
    /\ Len(log) = 5
    /\ Kinds(log) = <<"Unregister", "Flush", "Create", "Register", "Load">>
    /\ log[2][2] = log[1][2]
    /\ log[3][2] = last_call.surface
    /\ surfaces[log[1][2]].params.depth = 2
    /\ MatchesTopology(surfaces[log[1][2]], last_call.params) = "FullMatch"
    /\ IsInside(surfaces[log[1][2]], last_call.gpu_addr,
                last_call.gpu_addr + GetGuestSizeInBytes(last_call.params))

\* The scan finds one overlap, of the candidate's topology, that holds the
\* candidate's range and yields a view of it.
HeldWithView(scan, gpu_addr, params) ==
    /\ Len(scan.surfaces) = 1
    /\ MatchesTopology(surfaces[scan.surfaces[1]], params) = "FullMatch"
    /\ IsInside(surfaces[scan.surfaces[1]], gpu_addr, gpu_addr + GetGuestSizeInBytes(params))
    /\ EmplaceView(scan.c, scan.surfaces[1], params, gpu_addr, GetGuestSizeInBytes(params))
          # NullView

\* C30 (as stated): on the single-overlap view path of GetSurface the overlap
\* is rebuilt, that is unregistered in favour of a new surface, only when its
\* pixel format differs from the requested one and the two formats are not
\* declared siblings.
C30_ViewRebuildsOnlyMirage ==
    ~guard_render_targets =>
        \A l \in InsideLookups, preserve_contents, is_render \in BOOLEAN :
            LET Viewed(scan, r) ==
                    (/\ r.c.ok
                     /\ ReachesScan(l[1], l[2])
                     /\ HeldWithView(scan, l[1], l[2])
                     /\ HasEvent(r.c.log, "Unregister")) =>
                        /\ surfaces[scan.surfaces[1]].params.pixel_format # l[2].pixel_format
                        /\ ~AreDeclaredSiblings(surfaces[scan.surfaces[1]].params.pixel_format,
                                                l[2].pixel_format)
            IN  Viewed(GetSurfacesInRegion(Cur("none"),
                                           ToCacheAddr(GetPointer(l[1])), GetGuestSizeInBytes(l[2])),
                       GetSurface(Cur("none"), l[1], l[2], preserve_contents, is_render))

\* C30 (the code): on the single-overlap view path the overlap is rebuilt
\* exactly when its pixel format differs from the requested one, declared
\* siblings included; the view returned is then one of the rebuilt surface,
\* which alone is registered at the overlap's address, and without a rebuild
\* the view is one of the overlap and nothing is allocated.
C30_ViewRebuildsOnAnyOtherFormat ==
    ~guard_render_targets =>
        \A l \in InsideLookups, preserve_contents, is_render \in BOOLEAN :
            LET Viewed(scan, r) ==
                    (r.c.ok /\ ReachesScan(l[1], l[2]) /\ HeldWithView(scan, l[1], l[2])) =>
                        IF surfaces[scan.surfaces[1]].params.pixel_format = l[2].pixel_format
                        THEN /\ r.s = scan.surfaces[1]
                             /\ r.c.log = <<>>
                             /\ r.view.surface = r.s
                        ELSE /\ RebuiltFrom(r, scan.surfaces[1])
                             /\ r.s # scan.surfaces[1]
                             /\ r.view.surface = r.s
                             /\ r.view # NullView
                             /\ Cardinality({i \in 1..Len(r.c.log) : r.c.log[i][1] = "Unregister"}) = 1
            IN  Viewed(GetSurfacesInRegion(Cur("none"),
                                           ToCacheAddr(GetPointer(l[1])), GetGuestSizeInBytes(l[2])),
                       GetSurface(Cur("none"), l[1], l[2], preserve_contents, is_render))

\* A texture of a sibling format was looked up at the second level of a
\* registered mip chain: the chain was rebuilt, and the view returned is the
\* second level of the rebuilt surface.
C30_SiblingRebuilt ==
    /\ last_call.op = "GetTextureSurface"
    /\ HasEvent(log, "Unregister")
    /\ last_call.view.level = 1
    /\ last_call.view.surface = last_call.surface
    /\ surfaces[last_call.surface].is_registered
    /\ surfaces[last_call.surface].gpu_addr # last_call.gpu_addr
    /\ surfaces[last_call.surface].params.pixel_format # last_call.params.pixel_format
    /\ AreDeclaredSiblings(surfaces[last_call.surface].params.pixel_format,
                           last_call.params.pixel_format)

\* ------------------------------------------------------------------------
\* C31..C39: write-back, index and slot invariants
\* ------------------------------------------------------------------------
\* C31: FlushSurface of an unmodified surface changes nothing: no write-back
\* is issued and neither its tick nor the tick counter moves; FlushSurface of
\* a modified surface issues one write-back of it and leaves it unmodified;
\* LoadSurface issues one load and leaves the surface unmodified, whatever
\* it was before.
C31_FlushAndLoadClearModified ==
    \A s \in SurfaceIds :
        surfaces[s].alive =>
            LET Settled(f, l) ==
                    /\ ~surfaces[s].is_modified => f = Cur("none")
                    /\ (surfaces[s].is_modified /\ f.ok) =>
                          /\ f.log = <<<<"Flush", s>>>>
                          /\ ~f.surf[s].is_modified
                          /\ \A q \in SurfaceIds \ {s} : f.surf[q] = surfaces[q]
                    /\ l.ok =>
                          /\ l.log = <<<<"Load", s>>>>
                          /\ ~l.surf[s].is_modified
                          /\ \A q \in SurfaceIds \ {s} : l.surf[q] = surfaces[q]
            IN  Settled(FlushSurface(Cur("none"), s), LoadSurface(Cur("none"), s))

\* A lookup has recycled two overlaps under the Flush strategy: the modified
\* one was written back and is unmodified now, the unmodified one passed
\* through FlushSurface without a write-back, and the surface returned was
\* loaded and is unmodified.
C31_Witness ==
    /\ last_call.op \in LookupEntryPoints
    /\ Len(UnregisteredBy(log, 1)) = 2
    /\ Len(Flushed(log)) = 1
    /\ ~surfaces[Flushed(log)[1][2]].is_modified
    /\ HasEvent(log, "Load")
    /\ log[Len(log)] = <<"Load", last_call.surface>>
    /\ ~surfaces[last_call.surface].is_modified

\* Every Unregister that passes the guard test is of a surface registered at
\* that moment, and no registry bucket is asked to erase a surface it does
\* not hold.
UnregistersRegistered ==
    /\ \A i \in 1..Len(log') :
          log'[i][1] = "Unregister" => RegisteredBefore(log', i, log'[i][2])
    /\ ~ub_hit'

\* An L1 entry that the step removes is the entry of a surface the step has
\* left unregistered.
RemovesOwnL1Only ==
    \A k \in DOMAIN l1_cache :
        k \notin DOMAIN l1_cache' => ~surfaces'[l1_cache[k]].is_registered

\* C32 (the part that holds): Unregister, past its guard test, runs only on
\* a surface that is registered at that moment, so no surface is
\* unregistered twice without a Register in between and no registry bucket
\* erases an absent entry.
C32_UnregisterOnlyRegistered == [][UnregistersRegistered]_vars

\* C32: Unregister, past its guard test, runs only on a surface that is
\* registered at that moment, no registry bucket erases an absent entry, and
\* no step removes the L1 entry of a surface that stays registered.
C32_UnregisterOnlyOwnEntries == [][UnregistersRegistered /\ RemovesOwnL1Only]_vars

\* The cache-address ranges of the two surfaces have a byte in common.
RangesMeet(s, q) ==
    Overlaps(surfaces[s], surfaces[q].cache_addr, surfaces[q].cache_addr_end)

\* C33: any two distinct registered surfaces have disjoint cache-address
\* ranges.
C33_RegisteredDisjoint ==
    \A s, q \in RegisteredIds : s # q => ~RangesMeet(s, q)

\* C34: each L1 cache entry maps its key to a surface that is registered and
\* whose starting cache address is the key.
C34_L1EntriesRegistered ==
    \A k \in DOMAIN l1_cache :
        /\ surfaces[l1_cache[k]].alive
        /\ surfaces[l1_cache[k]].is_registered
        /\ surfaces[l1_cache[k]].cache_addr = k

\* Under the guard a second surface was registered at the cache address of
\* a protected one that Unregister refused: both are registered and the L1
\* entry of the address is the second.
C34_Witness ==
    \E s, q \in RegisteredIds :
        /\ s # q
        /\ surfaces[s].cache_addr = surfaces[q].cache_addr
        /\ MapGet(l1_cache, surfaces[q].cache_addr, 0) = q
        /\ guard_render_targets

\* The surfaces the colour slots and the depth slot hold.
BoundSurfaces ==
    ({render_targets[i].target : i \in RenderTargetIds} \cup {depth_buffer.target}) \ {0}

\* C35: a surface held by a colour or depth render-target slot is
\* registered, so that the view the clean-dirty-flag fast path returns and
\* the surface MarkColorBufferInUse / MarkDepthBufferInUse stamps are those
\* of a registered surface.
C35_BoundSurfacesRegistered ==
    \A s \in BoundSurfaces : surfaces[s].is_registered

\* C36: a surface carries the render-target mark exactly when at least one
\* colour slot or the depth slot holds it.
C36_MarkedIffBound ==
    \A s \in SurfaceIds : surfaces[s].alive => (surfaces[s].is_target <=> s \in BoundSurfaces)

\* The surfaces InitializeSurface registered in the step just taken: the
\* ones GetUncachedSurface handed out and Register took at once.
InitializedIn(l) ==
    {l[i][2] : i \in {j \in 1..(Len(l) - 1) :
                        /\ l[j][1] \in {"Create", "Reuse"}
                        /\ l[j + 1] = <<"Register", l[j][2]>>}}

\* C37: a surface InitializeSurface registers is unmodified when the lookup
\* returns, whether it was created or taken from the reserve and whether or
\* not its contents were loaded.
C37_InitializedUnmodified ==
    [][last_call'.op \in LookupOps =>
            \A s \in InitializedIn(log') : ~surfaces'[s].is_modified]_vars

\* The destination of the copy just made is registered at the address asked
\* for, and the source lookup that followed did not leave it unregistered.
DestinationKept(d) ==
    LET dst == last_call'.surface
    IN  /\ surfaces'[dst].is_registered
        /\ surfaces'[dst].is_modified
        /\ surfaces'[dst].gpu_addr = d[1]
        /\ \A j \in 1..Len(log') :
              log'[j] = <<"Unregister", dst>> =>
                  \E i \in (j + 1)..Len(log') : log'[i] = <<"Register", dst>>

\* C38: when DoFermiCopy returns, the destination it blitted into and marked
\* modified is registered at the destination address, and is another object
\* than the source whenever the two addresses differ.
C38_FermiDestinationRegistered ==
    [][\A s \in FermiConfigs, d \in FermiConfigs :
            DoFermiCopy(s, d) =>
                /\ DestinationKept(d)
                /\ s[1] # d[1] => last_call'.surface # last_call'.surface2]_vars

\* The reserve lists, by the parameters they are kept under.
ReserveKeys == DOMAIN surface_reserve

\* Every surface kept under P has parameters P, and the surface
\* TryGetReservedSurface would hand out for P is not registered.
C39_ReserveKeyedAndFree ==
    \A p \in ReserveKeys :
        /\ \A i \in 1..Len(surface_reserve[p]) : surfaces[surface_reserve[p][i]].params = p
        /\ LET s == TryGetReservedSurface(Cur("none"), p)
           IN  s # 0 => ~surfaces[s].is_registered

\* C39: every surface in reserve[P] has parameters P, TryGetReservedSurface
\* never returns a registered surface, and no surface is twice in one
\* reserve list.
C39_ReserveHoldsEachOnce ==
    /\ C39_ReserveKeyedAndFree
    /\ \A p \in ReserveKeys :
          \A i \in 1..Len(surface_reserve[p]), j \in 1..Len(surface_reserve[p]) :
              surface_reserve[p][i] = surface_reserve[p][j] => i = j

====
